---- MODULE Spec2Model ----
(***************************************************************************)
(* A model of hanoidb-rs: the entry/block/tree file layer, the streaming   *)
(* Writer, the two-way Merger, the Nursery (log + memtable), the Level     *)
(* (slots A, B, C and the in-progress merger) and the HanoiDB orchestrator *)
(* with its command queue.  Byte positions and lengths are kept as the     *)
(* code computes them; keys are one-byte strings ordered as integers.      *)
(***************************************************************************)
EXTENDS Integers, Sequences, FiniteSets, TLC

\* ------------------------------------------------------------------------
\* Bounds of the model
\* ------------------------------------------------------------------------
NumKeys == 3
MaxEntryKeyLen == 2
MaxEntryValueLen == 1
MaxKey == 5
MaxLoadOps == 18
MaxLargeOps == 5
MergeKeys == 3
BigValueLen == 8177
MaxWork == 3
MaxMinLevel == 1
MaxDepth == 3
MaxOps == 8
MaxOpsWithReopen == 6
MaxDeletes == 1
MaxReopens == 1
MaxOpsAfterReopen == 1
WriterKeys == 3
MaxAdds == 4
MaxNurseryMinLevel == 2
MaxNurseryCalls == 5
MaxNurseryNews == 1
MaxFaultCalls == 4

Keys == 1..NumKeys
\* The keys a map or a file can hold.
KeySpace == 1..MaxKey
MergeKeySet == 1..MergeKeys

\* Every level number a configuration of the model can use, and the
\* configurations (min_level <= max_level).
TopLevel == MaxMinLevel + MaxDepth - 1
Levels == 0..TopLevel
Configs ==
    {c \in [min_level : 0..MaxMinLevel, max_level : 0..TopLevel] :
        /\ c.min_level <= c.max_level
        /\ c.max_level - c.min_level + 1 <= MaxDepth}

\* A value: which write produced it, and its length in bytes.  A value of
\* BigValueLen bytes makes one KeyVal entry fill a leaf block on its own.
Value(id, len) == [id |-> id, len |-> len]
NoValue == Value(0, 0)

\* ------------------------------------------------------------------------
\* Program constants
\* ------------------------------------------------------------------------
BLOCK_SIZE == 8192
FIRST_BLOCK_POS == 4

\* ------------------------------------------------------------------------
\* Entries (entry.rs)
\* ------------------------------------------------------------------------
KeyVal(k, v) ==
    [tag |-> "KeyVal", key |-> k, value |-> v, blockpos |-> 0, blocklen |-> 0]

Deleted(k) ==
    [tag |-> "Deleted", key |-> k, value |-> NoValue, blockpos |-> 0, blocklen |-> 0]

PosLen(pos, len, k) ==
    [tag |-> "PosLen", key |-> k, value |-> NoValue, blockpos |-> pos, blocklen |-> len]

NoEntry == [tag |-> "None", key |-> 0, value |-> NoValue, blockpos |-> 0, blocklen |-> 0]

\* Length in bytes of a key and of a value.
KeyLen(k) == 1

ValueLen(v) == v.len

\* Entry::encoded_size (no timestamps: the nursery and the merger never set one)
encoded_size(e) ==
    9 + (CASE e.tag = "KeyVal" -> 1 + 4 + KeyLen(e.key) + ValueLen(e.value)
           [] e.tag = "Deleted" -> 1 + KeyLen(e.key)
           [] e.tag = "PosLen" -> 1 + 8 + 4 + KeyLen(e.key))

RECURSIVE SumSizes(_)
SumSizes(members) ==
    IF members = <<>> THEN 0
    ELSE encoded_size(Head(members)) + SumSizes(Tail(members))

Last(s) == s[Len(s)]

\* ------------------------------------------------------------------------
\* Writer (writer.rs)
\* ------------------------------------------------------------------------
NewBlock(level) == [level |-> level, size |-> 0, members |-> <<>>]

\* (a test that prunes a solo block only above level 1)
is_solo_inner_block_above_one(block) == block.level > 1 /\ Len(block.members) = 1

is_solo_inner_block(block) == block.level > 0 /\ Len(block.members) = 1

\* Writer::with_expected_num_items: the state of a writer whose file holds
\* only the magic.  last_node_pos = 0 stands for None; written is the
\* sequence of framed blocks appended to the file so far.
with_expected_num_items ==
    [index_file_pos |-> FIRST_BLOCK_POS,
     last_node_pos |-> 0,
     blocks |-> <<>>,
     bloom |-> {},
     value_count |-> 0,
     tombstone_count |-> 0,
     written |-> <<>>,
     err |-> "none"]

count(w) == w.value_count + w.tombstone_count

RECURSIVE PushLowerBlocks(_, _)
PushLowerBlocks(blocks, level) ==
    IF Last(blocks).level > level
    THEN PushLowerBlocks(Append(blocks, NewBlock(Last(blocks).level - 1)), level)
    ELSE blocks

get_block_at_level(blocks, level) ==
    IF blocks = <<>> THEN <<NewBlock(level)>> ELSE PushLowerBlocks(blocks, level)

RECURSIVE append_to_block(_, _, _)
RECURSIVE flush_block_buffer(_)

\* The ordering test of append_to_block: TRUE when the entry is rejected.
OutOfOrder(last_entry, entry) == last_entry.key > entry.key

append_to_block(w, level, entry) ==
    LET blocks1 == get_block_at_level(w.blocks, level)
        n == Len(blocks1)
        block == blocks1[n]
        new_size == block.size + encoded_size(entry)
    IN  IF block.members # <<>> /\ OutOfOrder(Last(block.members), entry)
        THEN [w EXCEPT !.blocks = blocks1, !.err = "OutOfOrderWrite"]
        ELSE LET w1 == [w EXCEPT
                          !.blocks = [blocks1 EXCEPT ![n] =
                                        [block EXCEPT !.size = new_size,
                                                      !.members = Append(@, entry)]],
                          !.tombstone_count =
                              @ + (IF entry.tag = "Deleted" THEN 1 ELSE 0),
                          !.value_count =
                              @ + (IF entry.tag = "KeyVal" THEN 1 ELSE 0)]
             IN  IF new_size >= BLOCK_SIZE THEN flush_block_buffer(w1) ELSE w1

\* The length the writer records in the PosLen of a block whose header
\* carries blocklen.
PosLenLength(blocklen) == blocklen

flush_block_buffer(w) ==
    LET n == Len(w.blocks)
        block == w.blocks[n]
        first_key == block.members[1].key
        \* TAG_END followed by the encoded entries; Compression::None
        compressed_len == 1 + SumSizes(block.members)
        blocklen == 2 + 1 + compressed_len
        blockpos == w.index_file_pos
        w1 == [w EXCEPT
                 !.blocks = SubSeq(@, 1, n - 1),
                 !.written = Append(@, [start |-> blockpos,
                                        blocklen |-> blocklen,
                                        level |-> block.level,
                                        members |-> block.members]),
                 !.last_node_pos = blockpos,
                 !.index_file_pos = @ + 7 + compressed_len]
    IN  append_to_block(w1, block.level + 1,
                        PosLen(blockpos, PosLenLength(blocklen), first_key))

\* Writer::add
add(w, entry) ==
    append_to_block(
        IF entry.tag # "PosLen" THEN [w EXCEPT !.bloom = @ \cup {entry.key}] ELSE w,
        0, entry)

RECURSIVE AddAll(_, _)
AddAll(w, entries) ==
    IF entries = <<>> \/ w.err # "none" THEN w
    ELSE AddAll(add(w, Head(entries)), Tail(entries))

RECURSIVE DrainBlocks(_)
DrainBlocks(w) ==
    IF w.blocks = <<>> \/ w.err # "none" \/ is_solo_inner_block(Last(w.blocks))
    THEN w
    ELSE DrainBlocks(flush_block_buffer(w))

\* A tree file on disk: the framed blocks in file order, the root position
\* of the trailer (0 while the trailer has not been written) and the keys
\* the bloom filter of the trailer holds.
FileOf(w) == [blocks |-> w.written, root_pos |-> 0, bloom |-> {}]

\* (a close that leaves the root position of a file without blocks at 0)
TrailerWithoutRoot(w1) ==
    IF w1.last_node_pos # 0
    THEN [blocks |-> w1.written, root_pos |-> w1.last_node_pos, bloom |-> w1.bloom]
    ELSE [blocks |-> <<[start |-> FIRST_BLOCK_POS, blocklen |-> 0,
                        level |-> 0, members |-> <<>>]>>,
          root_pos |-> 0,
          bloom |-> w1.bloom]

\* Writer::close: the finished file.
Trailer(w1) ==
    IF w1.last_node_pos # 0
    THEN [blocks |-> w1.written, root_pos |-> w1.last_node_pos, bloom |-> w1.bloom]
    ELSE [blocks |-> <<[start |-> FIRST_BLOCK_POS, blocklen |-> 0,
                        level |-> 0, members |-> <<>>]>>,
          root_pos |-> FIRST_BLOCK_POS,
          bloom |-> w1.bloom]

close(w) == Trailer(DrainBlocks(w))

\* ------------------------------------------------------------------------
\* Block and Tree readers (block.rs, tree.rs)
\* ------------------------------------------------------------------------
NoBlock == [start |-> 0, blocklen |-> 0, level |-> 0, members |-> <<>>]

\* Block::from_start: the block whose header starts at the position
\* (NoBlock, start 0, when no block of the file starts there).
from_start(file, start) ==
    IF \E i \in 1..Len(file.blocks) : file.blocks[i].start = start
    THEN file.blocks[CHOOSE i \in 1..Len(file.blocks) : file.blocks[i].start = start]
    ELSE NoBlock

\* Block::from_start_length: Ok only when the header's blocklen is the
\* pointer's length minus the four bytes of the length field.
from_start_length(file, start, length) ==
    LET block == from_start(file, start)
        expected_length == length - 4
    IN  IF block.start # 0 /\ block.blocklen = expected_length
        THEN [ok |-> TRUE, block |-> block]
        ELSE [ok |-> FALSE, block |-> NoBlock]

\* OwnedEntryIterator / EntryIterator: entries are read from start + 8
\* while the read position is below start + blocklen.
RECURSIVE IterEntries(_, _, _)
\* (an iterator that yields an entry only when it ends below start + blocklen)
IterEntriesWithinLength(block, i, pos) ==
    IF i > Len(block.members)
       \/ pos + encoded_size(block.members[i]) > block.start + block.blocklen
    THEN <<>>
    ELSE <<block.members[i]>>
         \o IterEntries(block, i + 1, pos + encoded_size(block.members[i]))

IterEntries(block, i, pos) ==
    IF pos >= block.start + block.blocklen \/ i > Len(block.members)
    THEN <<>>
    ELSE <<block.members[i]>>
         \o IterEntries(block, i + 1, pos + encoded_size(block.members[i]))

entries(block) == IterEntries(block, 1, block.start + 8)

\* Tree::block_from_poslen_entry
block_from_poslen_entry(file, entry) ==
    IF entry.tag # "PosLen" THEN [ok |-> FALSE, block |-> NoBlock]
    ELSE from_start_length(file, entry.blockpos, entry.blocklen)

\* OwnedTreeEntryIterator::next run to exhaustion: the leaf entries yielded
\* until next returns None.  levels is the stack of block iterators, each the
\* sequence of entries its block has left.
RECURSIVE TreeIterate(_, _)
TreeIterate(file, levels) ==
    IF levels = <<>> THEN <<>>
    ELSE LET n == Len(levels)
             level == levels[n]
         IN  IF level = <<>> THEN TreeIterate(file, SubSeq(levels, 1, n - 1))
             ELSE LET entry == Head(level)
                      rest == [levels EXCEPT ![n] = Tail(level)]
                  IN  IF entry.tag = "PosLen"
                      THEN LET child == block_from_poslen_entry(file, entry)
                           IN  IF child.ok
                               THEN TreeIterate(file, Append(rest, entries(child.block)))
                               ELSE <<>>
                      ELSE <<entry>> \o TreeIterate(file, rest)

root_block(file) == from_start(file, file.root_pos)

\* Tree::entries_owned, as the sequence the iterator yields.
entries_owned(file) == TreeIterate(file, <<entries(root_block(file))>>)

\* take_while(not a PosLen whose key exceeds the search key).last()
RECURSIVE LastNotAbove(_, _, _)
LastNotAbove(es, key, acc) ==
    IF es = <<>> THEN acc
    ELSE IF Head(es).tag = "PosLen" /\ key < Head(es).key THEN acc
    ELSE LastNotAbove(Tail(es), key, Head(es))

RECURSIVE Descend(_, _, _)
Descend(file, block, key) ==
    IF block.level > 0
    THEN LET inner_entry == LastNotAbove(entries(block), key, NoEntry)
         IN  IF inner_entry = NoEntry THEN [ok |-> TRUE, entry |-> NoEntry]
             ELSE LET child == block_from_poslen_entry(file, inner_entry)
                  IN  IF child.ok THEN Descend(file, child.block, key)
                      ELSE [ok |-> FALSE, entry |-> NoEntry]
    ELSE LET es == entries(block)
         IN  IF \E i \in 1..Len(es) : es[i].key = key
             THEN [ok |-> TRUE,
                   entry |-> es[CHOOSE i \in 1..Len(es) :
                                   es[i].key = key /\ \A j \in 1..(i - 1) : es[j].key # key]]
             ELSE [ok |-> TRUE, entry |-> NoEntry]

\* Tree::get_entry: [ok, entry]; ok = FALSE is an Err result.
TreeGetEntry(file, key) ==
    IF key \notin file.bloom THEN [ok |-> TRUE, entry |-> NoEntry]
    ELSE Descend(file, root_block(file), key)

\* ------------------------------------------------------------------------
\* Merger (merger.rs)
\* ------------------------------------------------------------------------
\* Merger::new: peekable iterators over A and B (the entries each has left)
\* and a fresh writer for X-L.data.
MergerNew(a_file, b_file) ==
    [a |-> entries_owned(a_file), b |-> entries_owned(b_file),
     x |-> with_expected_num_items]

NoMerger == [a |-> <<>>, b |-> <<>>, x |-> [with_expected_num_items EXCEPT !.err = "no merger"]]

\* The entry emitted when both heads carry the same key (A's is discarded).
OnEqualKeys(a, b) == b

\* The match of merge_step: the entry to emit, what each side has left and
\* the step count.
Pick(m) ==
    IF m.b = <<>>
    THEN [entry |-> Head(m.a), a |-> Tail(m.a), b |-> m.b, step |-> 1]
    ELSE IF m.a = <<>>
    THEN [entry |-> Head(m.b), a |-> m.a, b |-> Tail(m.b), step |-> 1]
    ELSE IF Head(m.a).key < Head(m.b).key
    THEN [entry |-> Head(m.a), a |-> Tail(m.a), b |-> m.b, step |-> 1]
    ELSE IF Head(m.a).key = Head(m.b).key
    THEN [entry |-> OnEqualKeys(Head(m.a), Head(m.b)), a |-> Tail(m.a),
          b |-> Tail(m.b), step |-> 2]
    ELSE [entry |-> Head(m.b), a |-> m.a, b |-> Tail(m.b), step |-> 1]

Emit(m, pick) ==
    [m |-> [a |-> pick.a, b |-> pick.b, x |-> add(m.x, pick.entry)],
     step |-> pick.step]

merge_step(m) ==
    IF m.a = <<>> /\ m.b = <<>> THEN [m |-> m, step |-> 0] ELSE Emit(m, Pick(m))

RECURSIVE MergeLoop(_, _, _)
RECURSIVE AfterStep(_, _, _, _)
\* (a loop that runs one iteration more than the work granted)
MergeLoopOneMore(m, i, work) ==
    IF i > work
    THEN [outcome |-> "Continue", merger |-> m, count |-> 0, steps |-> 0]
    ELSE AfterStep(m, merge_step(m), i, work)

MergeLoop(m, i, work) ==
    IF i >= work
    THEN [outcome |-> "Continue", merger |-> m, count |-> 0, steps |-> 0]
    ELSE AfterStep(m, merge_step(m), i, work)

\* (a Complete that reports the entries emitted, not the iterations)
AfterStepReportingEmitted(m, r, i, work) ==
    IF r.m.x.err # "none"
    THEN [outcome |-> "Err", merger |-> r.m, count |-> 0, steps |-> 0]
    ELSE IF r.step = 0
    THEN [outcome |-> "Complete", merger |-> m, count |-> count(m.x), steps |-> i]
    ELSE MergeLoop(r.m, i + 1, work)

AfterStep(m, r, i, work) ==
    IF r.m.x.err # "none"
    THEN [outcome |-> "Err", merger |-> r.m, count |-> 0, steps |-> 0]
    ELSE IF r.step = 0
    THEN [outcome |-> "Complete", merger |-> m, count |-> count(m.x), steps |-> i + 1]
    ELSE MergeLoop(r.m, i + 1, work)

\* Merger::incremental_merge.  On Complete the X file is close(merger.x).
incremental_merge(m, work) == MergeLoop(m, 0, work)

\* ------------------------------------------------------------------------
\* The directory on disk
\* ------------------------------------------------------------------------
NoFile == [blocks |-> <<>>, root_pos |-> -1, bloom |-> {}]

Exists(f) == f # NoFile

\* A file holds a trailer once its writer was closed.
IsTree(f) == f.root_pos > 0

NoLog == [exists |-> FALSE, entries |-> <<>>, synced |-> 0]
EmptyLog == [exists |-> TRUE, entries |-> <<>>, synced |-> 0]

NoLevelFiles == [A |-> NoFile, B |-> NoFile, C |-> NoFile, M |-> NoFile, X |-> NoFile]

FreshDisk == [log |-> EmptyLog, ndata |-> NoFile, lv |-> [L \in Levels |-> NoLevelFiles]]

\* ------------------------------------------------------------------------
\* Commands (db.rs)
\* ------------------------------------------------------------------------
PromoteFile(name, from, target) ==
    [cmd |-> "PromoteFile", path |-> name, from |-> from, steps |-> 0,
     target_level |-> target]

Merge(steps, target) ==
    [cmd |-> "Merge", path |-> "", from |-> 0, steps |-> steps, target_level |-> target]

level_size(level) == 2 ^ level

Min(a, b) == IF a < b THEN a ELSE b

\* usize::saturating_sub
saturating_sub(a, b) == IF a >= b THEN a - b ELSE 0

\* ------------------------------------------------------------------------
\* Nursery (nursery.rs)
\* ------------------------------------------------------------------------
EmptyData == [k \in KeySpace |-> NoEntry]

DataLen(data) == Cardinality({k \in KeySpace : data[k] # NoEntry})

\* The map drained in ascending key order.
RECURSIVE DataFrom(_, _)
DataFrom(data, k) ==
    IF k > MaxKey THEN <<>>
    ELSE (IF data[k] # NoEntry THEN <<data[k]>> ELSE <<>>) \o DataFrom(data, k + 1)

DataEntries(data) == DataFrom(data, 1)

\* log.sync_data
\* (a log whose sync_data does not reach the disk)
sync_data_skipped(log) == log

sync_data(log) == [log EXCEPT !.synced = Len(log.entries)]

\* log.write_all
write_all(log, entry) == [log EXCEPT !.entries = Append(@, entry)]

\* (a merge trigger that compares step instead of step + 1)
TriggerMergeLate(step, min_level) ==
    LET min_steps_to_merge == level_size(min_level) \div 2
    IN  IF step >= min_steps_to_merge
        THEN [step |-> 0, commands |-> <<Merge(step + 1, min_level)>>]
        ELSE [step |-> step + 1, commands |-> <<>>]

\* The merge trigger at the end of write_internal: [step, commands].
TriggerMerge(step, min_level) ==
    LET min_steps_to_merge == level_size(min_level) \div 2
    IN  IF step + 1 >= min_steps_to_merge
        THEN [step |-> 0, commands |-> <<Merge(step + 1, min_level)>>]
        ELSE [step |-> step + 1, commands |-> <<>>]

\* A record Entry::read cannot read: the tail a stopped write_all left.
Torn == [tag |-> "Torn", key |-> 0, value |-> NoValue, blockpos |-> 0, blocklen |-> 0]

\* Entry::read returns Ok for the record.
Readable(record) == record.tag \in {"KeyVal", "Deleted"}

\* (a replay that keeps the first record of each key)
RECURSIVE ReplayKeepingFirst(_, _)
ReplayKeepingFirst(records, data) ==
    IF records = <<>> \/ ~Readable(Head(records)) THEN data
    ELSE ReplayKeepingFirst(Tail(records),
                            IF data[Head(records).key] = NoEntry
                            THEN [data EXCEPT ![Head(records).key] = Head(records)]
                            ELSE data)

\* Nursery::recover's replay loop: the last record of each key, up to the
\* first record that cannot be read.
RECURSIVE Replay(_, _)
Replay(records, data) ==
    IF records = <<>> \/ ~Readable(Head(records)) THEN data
    ELSE Replay(Tail(records), [data EXCEPT ![Head(records).key] = Head(records)])

\* (a recover that writes nursery.data and returns no command)
recover_without_command(d, target_level) ==
    IF ~d.log.exists THEN [disk |-> d, command |-> <<>>, err |-> "none"]
    ELSE LET data == Replay(d.log.entries, EmptyData)
         IN  IF DataLen(data) > 0
             THEN IF Exists(d.ndata)
                  THEN [disk |-> d, command |-> <<>>, err |-> "AlreadyExists"]
                  ELSE [disk |-> [d EXCEPT
                                    !.ndata = close(AddAll(with_expected_num_items,
                                                           DataEntries(data))),
                                    !.log = NoLog],
                        command |-> <<>>,
                        err |-> "none"]
             ELSE [disk |-> [d EXCEPT !.log = NoLog], command |-> <<>>, err |-> "none"]

\* Nursery::recover: [disk, command, err]
recover(d, target_level) ==
    IF ~d.log.exists THEN [disk |-> d, command |-> <<>>, err |-> "none"]
    ELSE LET data == Replay(d.log.entries, EmptyData)
         IN  IF DataLen(data) > 0
             THEN IF Exists(d.ndata)
                  THEN [disk |-> d, command |-> <<>>, err |-> "AlreadyExists"]
                  ELSE [disk |-> [d EXCEPT
                                    !.ndata = close(AddAll(with_expected_num_items,
                                                           DataEntries(data))),
                                    !.log = NoLog],
                        command |-> <<PromoteFile("nursery.data", 0, target_level)>>,
                        err |-> "none"]
             ELSE [disk |-> [d EXCEPT !.log = NoLog], command |-> <<>>, err |-> "none"]

\* The result of a Nursery call: [nursery, disk, commands, err]
NurseryResult(n, d, commands, err) ==
    [nursery |-> n, disk |-> d, commands |-> commands, err |-> err]

\* (a flush test that waits for one key more)
FlushDueAbove(len, min_level) == len > level_size(min_level)

\* nursery.rs 88-89: the map is big enough to be promoted.
FlushDue(len, min_level) == len >= level_size(min_level)

\* nursery.rs 90-118: nursery.data is written from the drained map and the
\* log truncated.
Flushed(n, d, min_level) ==
    IF Exists(d.ndata) THEN NurseryResult(n, d, <<>>, "AlreadyExists")
    ELSE NurseryResult([n EXCEPT !.data = EmptyData],
                       [d EXCEPT !.ndata = close(AddAll(with_expected_num_items,
                                                        DataEntries(n.data))),
                                 !.log = EmptyLog],
                       <<PromoteFile("nursery.data", 0, min_level)>>, "none")

\* nursery.rs 120-131: the merge trigger, when the flush did not fail.
Triggered(f, t) ==
    IF f.err # "none" THEN f
    ELSE NurseryResult([f.nursery EXCEPT !.step = t.step], f.disk,
                       f.commands \o t.commands, "none")

\* Nursery::write_internal as one call: [nursery, disk, commands, err]
write_internal(n, d, entry, min_level) ==
    Triggered(IF FlushDue(DataLen([n.data EXCEPT ![entry.key] = entry]), min_level)
              THEN Flushed([n EXCEPT !.data[entry.key] = entry],
                           [d EXCEPT !.log = sync_data(write_all(@, entry))],
                           min_level)
              ELSE NurseryResult([n EXCEPT !.data[entry.key] = entry],
                                 [d EXCEPT !.log = sync_data(write_all(@, entry))],
                                 <<>>, "none"),
              TriggerMerge(n.step, min_level))

\* Nursery::get_value: the map's value for the key, NoEntry for None.
get_value(n, key) == n.data[key]

\* Nursery::write_internal when the log fails: the map takes the entry
\* (nursery.rs 81), then log.write_all (82) or log.sync_data (83) returns Err
\* and `?` returns it before total_size, the flush and the merge trigger.
\* A failed write_all leaves none of the record or a part of it in the log,
\* a failed sync_data leaves the record written.
write_internal_failing(n, d, entry, fault, partial) ==
    NurseryResult([n EXCEPT !.data[entry.key] = entry],
                  [d EXCEPT !.log = IF fault = "sync_data" THEN write_all(@, entry)
                                    ELSE IF partial THEN write_all(@, Torn)
                                    ELSE @],
                  <<>>, "Io")

\* ------------------------------------------------------------------------
\* Level (level.rs)
\* ------------------------------------------------------------------------
\* a, b, c: the slot holds an open Tree; born: the promotion number of the
\* file in each slot (history, 0 when the slot is empty).
NoLevel == [a |-> FALSE, b |-> FALSE, c |-> FALSE, has_merger |-> FALSE, merger |-> NoMerger]

maybe_create_merger(lv, files) ==
    IF lv.a /\ lv.b /\ ~lv.has_merger
    THEN IF Exists(files.X)
         THEN [lv |-> lv, files |-> files, err |-> "AlreadyExists"]
         ELSE [lv |-> [lv EXCEPT !.has_merger = TRUE,
                                 !.merger = MergerNew(files.A, files.B)],
               files |-> [files EXCEPT !.X = FileOf(with_expected_num_items)],
               err |-> "none"]
    ELSE [lv |-> lv, files |-> files, err |-> "none"]

\* Level::new: [lv, files, err]
LevelNew(files) ==
    IF \E s \in {"A", "B", "C"} : Exists(files[s]) /\ ~IsTree(files[s])
    THEN [lv |-> NoLevel, files |-> files, err |-> "CorruptedFile"]
    ELSE maybe_create_merger([NoLevel EXCEPT !.a = Exists(files.A),
                                             !.b = Exists(files.B),
                                             !.c = Exists(files.C)],
                             files)

\* Level::get_entry: C, then B, then A; [ok, entry]
RECURSIVE FirstHit(_, _)
RECURSIVE HitOrNext(_, _, _)
FirstHit(trees, key) ==
    IF trees = <<>> THEN [ok |-> TRUE, entry |-> NoEntry]
    ELSE HitOrNext(TreeGetEntry(Head(trees), key), Tail(trees), key)

HitOrNext(r, trees, key) ==
    IF ~r.ok \/ r.entry # NoEntry THEN r ELSE FirstHit(trees, key)

LookupOrder(lv, files) ==
    (IF lv.c THEN <<files.C>> ELSE <<>>)
    \o (IF lv.b THEN <<files.B>> ELSE <<>>)
    \o (IF lv.a THEN <<files.A>> ELSE <<>>)

LevelGetEntry(lv, files, key) == FirstHit(LookupOrder(lv, files), key)

\* The slot Level::promote_file renames the incoming file into ("full" when
\* A, B and C are all occupied).
FreeSlot(lv) ==
    IF ~lv.a THEN "A" ELSE IF ~lv.b THEN "B" ELSE IF ~lv.c THEN "C" ELSE "full"

SlotField(slot) == IF slot = "A" THEN "a" ELSE IF slot = "B" THEN "b" ELSE "c"

\* One filesystem operation of a merge completion, with the handle updates
\* the code makes around it: [lv, files].
ApplyFsOp(lv, files, op) ==
    CASE op = "remove A" ->
            [lv |-> [lv EXCEPT !.a = FALSE, !.b = FALSE],
             files |-> [files EXCEPT !.A = NoFile]]
      [] op = "remove B" ->
            [lv |-> lv, files |-> [files EXCEPT !.B = NoFile]]
      [] op = "rename X M" ->
            [lv |-> lv, files |-> [files EXCEPT !.M = files.X, !.X = NoFile]]
      [] op = "rename M A" ->
            [lv |-> [lv EXCEPT !.a = TRUE],
             files |-> [files EXCEPT !.A = files.M, !.M = NoFile]]
      [] op = "rename C B" ->
            [lv |-> [lv EXCEPT !.c = FALSE, !.b = TRUE],
             files |-> [files EXCEPT !.B = files.C, !.C = NoFile]]
      [] op = "rename C A" ->
            [lv |-> [lv EXCEPT !.c = FALSE, !.a = TRUE],
             files |-> [files EXCEPT !.A = files.C, !.C = NoFile]]

\* (a Complete branch that leaves a merged file that fits in M)
CompletionPlanLeavingM(cnt, level, has_c) ==
    IF cnt = 0
    THEN <<"remove A", "remove B">> \o (IF has_c THEN <<"rename C A">> ELSE <<>>)
    ELSE IF cnt <= level_size(level)
    THEN <<"rename X M", "remove A", "remove B">>
         \o (IF has_c THEN <<"rename C B">> ELSE <<>>)
    ELSE <<"remove A", "remove B">>

\* (a Complete branch that keeps a merged file of up to 2 * 2^L entries)
CompletionPlanFittingTwice(cnt, level, has_c) ==
    IF cnt = 0
    THEN <<"remove A", "remove B">> \o (IF has_c THEN <<"rename C A">> ELSE <<>>)
    ELSE IF cnt <= level_size(level) * 2
    THEN <<"rename X M", "remove A", "remove B", "rename M A">>
         \o (IF has_c THEN <<"rename C B">> ELSE <<>>)
    ELSE <<"remove A", "remove B">>

\* The filesystem operations of the Complete branch, in the order the code
\* issues them, by the count the merger reports.
CompletionPlan(cnt, level, has_c) ==
    IF cnt = 0
    THEN <<"remove A", "remove B">> \o (IF has_c THEN <<"rename C A">> ELSE <<>>)
    ELSE IF cnt <= level_size(level)
    THEN <<"rename X M", "remove A", "remove B", "rename M A">>
         \o (IF has_c THEN <<"rename C B">> ELSE <<>>)
    ELSE <<"remove A", "remove B">>

\* (a Merge handed back to the level it came from)
ForwardMergeHere(work_completed, level) == Merge(work_completed, level)

\* The Merge command a level passes on to the next level.
ForwardMerge(work_completed, level) == Merge(work_completed, level + 1)

\* (a Complete branch that returns the Merge before the PromoteFile)
CompletionCommandsMergeFirst(cnt, level, work_including_here, completed) ==
    <<ForwardMerge(work_including_here - completed, level)>>
    \o (IF cnt # 0 /\ cnt > level_size(level)
        THEN <<PromoteFile("X", level, level + 1)>> ELSE <<>>)

\* The commands the Complete branch returns once its filesystem operations
\* are done.
CompletionCommands(cnt, level, work_including_here, completed) ==
    (IF cnt # 0 /\ cnt > level_size(level)
     THEN <<PromoteFile("X", level, level + 1)>> ELSE <<>>)
    \o <<ForwardMerge(work_including_here - completed, level)>>

\* (a budget that takes the work unit of one level for the whole depth)
MergeStepsOfOneLevel(level, work_completed, work_unit, min_level, max_level) ==
    Min(saturating_sub(work_unit, work_completed), level_size(level) * 2)

\* The merge budget of one Level::merge call.
MergeSteps(level, work_completed, work_unit, min_level, max_level) ==
    LET work_left_here == level_size(level) * 2
        depth == max_level - min_level + 1
        work_units_left == saturating_sub(depth * work_unit, work_completed)
    IN  Min(work_units_left, work_left_here)

\* Level::merge up to the first filesystem operation of a completion:
\* [lv, files, commands, plan, after, err].  plan is the completion's
\* filesystem operations still to run, after the commands to return then.
LevelResult(lv, files, commands, plan, after, err) ==
    [lv |-> lv, files |-> files, commands |-> commands, plan |-> plan,
     after |-> after, err |-> err]

\* The match on the outcome of incremental_merge (level.rs 108-163).
OnOutcome(r, taken, files, level, work_including_here) ==
    CASE r.outcome = "Continue" ->
           LevelResult([taken EXCEPT !.has_merger = TRUE, !.merger = r.merger],
                       [files EXCEPT !.X = FileOf(r.merger.x)],
                       <<ForwardMerge(work_including_here, level)>>,
                       <<>>, <<>>, "none")
      [] r.outcome = "Complete" ->
           LevelResult(taken, [files EXCEPT !.X = close(r.merger.x)], <<>>,
                       CompletionPlan(r.count, level, taken.c),
                       CompletionCommands(r.count, level, work_including_here,
                                          r.steps),
                       "none")
      [] OTHER ->
           LevelResult(taken, [files EXCEPT !.X = FileOf(r.merger.x)],
                       <<>>, <<>>, <<>>, r.merger.x.err)

\* Level::merge once the merger was taken out of the level (level.rs 84-108).
WithMerger(merger, taken, files, level, work_completed, steps) ==
    IF steps = 0
    THEN LevelResult(taken, files, <<>>, <<>>, <<>>, "none")
    ELSE OnOutcome(incremental_merge(merger, steps), taken, files, level,
                   steps + work_completed)

\* Level::merge after maybe_create_merger returned c.
AfterCreate(c, level, work_completed, work_unit, min_level, max_level) ==
    IF c.err # "none"
    THEN LevelResult(c.lv, c.files, <<>>, <<>>, <<>>, c.err)
    ELSE IF c.lv.has_merger
    THEN WithMerger(c.lv.merger,
                    [c.lv EXCEPT !.has_merger = FALSE, !.merger = NoMerger],
                    c.files, level, work_completed,
                    MergeSteps(level, work_completed, work_unit, min_level, max_level))
    ELSE LevelResult(c.lv, c.files,
                     IF level < max_level
                     THEN <<ForwardMerge(work_completed, level)>> ELSE <<>>,
                     <<>>, <<>>, "none")

LevelMerge(lv0, files0, level, work_completed, work_unit, min_level, max_level) ==
    AfterCreate(maybe_create_merger(lv0, files0), level, work_completed, work_unit,
                min_level, max_level)

\* ------------------------------------------------------------------------
\* HanoiDB (db.rs)
\* ------------------------------------------------------------------------
NoLevels == [L \in Levels |-> NoLevel]

EmptyNursery == [data |-> EmptyData, step |-> 0]

NoBorn == [L \in Levels |-> [A |-> 0, B |-> 0, C |-> 0, M |-> 0]]

\* The file a PromoteFile command names.
SourceFile(d, command) ==
    IF command.path = "nursery.data" THEN d.ndata ELSE d.lv[command.from].X

RemoveSource(d, command) ==
    IF command.path = "nursery.data" THEN [d EXCEPT !.ndata = NoFile]
    ELSE [d EXCEPT !.lv[command.from].X = NoFile]

\* The result of a dispatched command:
\* [result, fault, disk, levels, commands, plan, after, slot]
Outcome(result, fault, d, lvs, commands, plan, after, slot) ==
    [result |-> result, fault |-> fault, disk |-> d, levels |-> lvs,
     commands |-> commands, plan |-> plan, after |-> after, slot |-> slot]

\* The check of level_mut: TRUE when the assertion holds.
ValidLevel(level, c) == c.min_level <= level /\ level <= c.max_level

\* HanoiDB::handle_command
\* Level::promote_file of the file src into level L.
Promoted(d, lvs, command, L, slot, src) ==
    IF slot = "full"
    THEN Outcome("panic", "level is full", d, lvs, <<>>, <<>>, <<>>, "")
    ELSE IF ~Exists(src)
    THEN Outcome("err", "NotFound", d, lvs, <<>>, <<>>, <<>>, "")
    ELSE IF ~IsTree(src)
    THEN Outcome("err", "CorruptedFile",
                 [RemoveSource(d, command) EXCEPT !.lv[L][slot] = src],
                 lvs, <<>>, <<>>, <<>>, slot)
    ELSE Outcome("ok", "none",
                 [RemoveSource(d, command) EXCEPT !.lv[L][slot] = src],
                 [lvs EXCEPT ![L][SlotField(slot)] = TRUE],
                 <<>>, <<>>, <<>>, slot)

\* The result m of Level::merge on level L, as the result of the command.
Merged(d, lvs, L, m) ==
    Outcome(IF m.err = "none" THEN "ok" ELSE "err", m.err,
            [d EXCEPT !.lv[L] = m.files], [lvs EXCEPT ![L] = m.lv],
            m.commands, m.plan, m.after, "")

\* HanoiDB::handle_command
handle_command(d, lvs, command, c) ==
    IF command.cmd = "PromoteFile"
    THEN IF ~ValidLevel(command.target_level, c)
         THEN Outcome("panic", "invalid level number", d, lvs, <<>>, <<>>, <<>>, "")
         ELSE Promoted(d, lvs, command, command.target_level,
                       FreeSlot(lvs[command.target_level]), SourceFile(d, command))
    ELSE IF command.target_level <= c.max_level
    THEN IF ~ValidLevel(command.target_level, c)
         THEN Outcome("panic", "invalid level number", d, lvs, <<>>, <<>>, <<>>, "")
         ELSE Merged(d, lvs, command.target_level,
                     LevelMerge(lvs[command.target_level], d.lv[command.target_level],
                                command.target_level, command.steps,
                                level_size(c.min_level) \div 2,
                                c.min_level, c.max_level))
    ELSE Outcome("ok", "none", d, lvs, <<>>, <<>>, <<>>, "")

RECURSIVE OpenLevels(_, _, _, _)
RECURSIVE Opened(_, _, _, _, _)
OpenLevels(d, lvs, L, max_level) ==
    IF L > max_level THEN [disk |-> d, levels |-> lvs, err |-> "none"]
    ELSE Opened(LevelNew(d.lv[L]), d, lvs, L, max_level)

Opened(r, d, lvs, L, max_level) ==
    IF r.err # "none"
    THEN [disk |-> [d EXCEPT !.lv[L] = r.files], levels |-> lvs, err |-> r.err]
    ELSE OpenLevels([d EXCEPT !.lv[L] = r.files], [lvs EXCEPT ![L] = r.lv],
                    L + 1, max_level)

OpenResult(result, fault, d, lvs, slot) ==
    [result |-> result, fault |-> fault, disk |-> d, levels |-> lvs, slot |-> slot]

\* db.rs 90-94: the recovered nursery file is promoted.
Recovered(r) ==
    OpenResult(r.result, r.fault, r.disk,
               IF r.result = "ok" THEN r.levels ELSE NoLevels, r.slot)

\* db.rs 80-95, with the levels o opened and the recovery command.
WithLevels(o, command, c) ==
    IF o.err # "none" THEN OpenResult("err", o.err, o.disk, NoLevels, "")
    ELSE IF command = <<>> THEN OpenResult("ok", "none", o.disk, o.levels, "")
    ELSE Recovered(handle_command(o.disk, o.levels, command[1], c))

\* db.rs 79-95, with the nursery n recovered.
WithNursery(n, c) ==
    IF n.err # "none" THEN OpenResult("err", n.err, n.disk, NoLevels, "")
    ELSE WithLevels(OpenLevels([n.disk EXCEPT !.log = EmptyLog], NoLevels,
                               c.min_level, c.max_level),
                    n.command, c)

\* HanoiDB::with_options on a directory: [result, fault, disk, levels, slot]
with_options(d, c) == WithNursery(recover(d, c.min_level), c)

\* HanoiDB::get: [ok, entry]; entry is the KeyVal found, NoEntry for None.
RECURSIVE LevelsGet(_, _, _, _, _)
RECURSIVE FoundOrNextLevel(_, _, _, _, _, _)
LevelsGet(lvs, d, L, max_level, key) ==
    IF L > max_level THEN [ok |-> TRUE, entry |-> NoEntry]
    ELSE FoundOrNextLevel(LevelGetEntry(lvs[L], d.lv[L], key), lvs, d, L, max_level, key)

FoundOrNextLevel(r, lvs, d, L, max_level, key) ==
    IF ~r.ok THEN r
    ELSE IF r.entry.tag = "Deleted" THEN [ok |-> TRUE, entry |-> NoEntry]
    ELSE IF r.entry.tag = "KeyVal" THEN r
    ELSE LevelsGet(lvs, d, L + 1, max_level, key)

get(n, lvs, d, c, key) ==
    IF n.data[key].tag = "Deleted" THEN [ok |-> TRUE, entry |-> NoEntry]
    ELSE IF n.data[key].tag = "KeyVal" THEN [ok |-> TRUE, entry |-> n.data[key]]
    ELSE LevelsGet(lvs, d, c.min_level, c.max_level, key)

\* ------------------------------------------------------------------------
\* Entries as bytes (entry.rs)
\* An entry here is [tag, key, value, timestamp, blockpos, blocklen] with
\* key and value sequences of bytes and timestamp <<>> for None or <<ts>>
\* for Some(ts).  Integer fields take values below 2^31.
\* ------------------------------------------------------------------------
TAG_KV_DATA == 128
TAG_DELETED == 129
TAG_POSLEN32 == 130
TAG_KV_DATA2 == 132
TAG_DELETED2 == 133
TAG_END == 255

EntryKeyVal(key, value, timestamp) ==
    [tag |-> "KeyVal", key |-> key, value |-> value, timestamp |-> timestamp,
     blockpos |-> 0, blocklen |-> 0]

EntryDeleted(key, timestamp) ==
    [tag |-> "Deleted", key |-> key, value |-> <<>>, timestamp |-> timestamp,
     blockpos |-> 0, blocklen |-> 0]

EntryPosLen(blockpos, blocklen, key) ==
    [tag |-> "PosLen", key |-> key, value |-> <<>>, timestamp |-> <<>>,
     blockpos |-> blockpos, blocklen |-> blocklen]

NoEntryBytes == EntryDeleted(<<>>, <<>>)

\* The big-endian bytes of n in a field of the width.
RECURSIVE to_be_bytes(_, _)
to_be_bytes(n, width) ==
    IF width = 0 THEN <<>>
    ELSE to_be_bytes(n \div 256, width - 1) \o <<n % 256>>

RECURSIVE from_be_bytes(_)
from_be_bytes(bytes) ==
    IF bytes = <<>> THEN 0
    ELSE from_be_bytes(SubSeq(bytes, 1, Len(bytes) - 1)) * 256 + bytes[Len(bytes)]

\* crc32fast::hash, a function of the bytes: here a position-weighted sum.
RECURSIVE crc32(_)
crc32(bytes) ==
    IF bytes = <<>> THEN 1
    ELSE (crc32(SubSeq(bytes, 1, Len(bytes) - 1)) * 31 + bytes[Len(bytes)] + 1) % 65521

\* Entry::encoded_size
EncodedSize(e) ==
    9 + (CASE e.tag = "KeyVal" ->
                1 + 4 * Len(e.timestamp) + 4 + Len(e.key) + Len(e.value)
           [] e.tag = "Deleted" -> 1 + 4 * Len(e.timestamp) + Len(e.key)
           [] e.tag = "PosLen" -> 1 + 8 + 4 + Len(e.key))

\* (a length field that counts the trailing TAG_END)
LengthFieldWithEnd(total_size) == total_size - 8

\* The length field: the bytes between the CRC and the trailing TAG_END.
LengthField(total_size) == total_size - 9

\* The bytes Entry::encode pushes in its match, from the tag on.
EntryData(e) ==
    CASE e.tag = "KeyVal" ->
            (IF e.timestamp # <<>>
             THEN <<TAG_KV_DATA2>> \o to_be_bytes(e.timestamp[1], 4)
             ELSE <<TAG_KV_DATA>>)
            \o to_be_bytes(Len(e.key), 4) \o e.key \o e.value
      [] e.tag = "Deleted" ->
            (IF e.timestamp # <<>>
             THEN <<TAG_DELETED2>> \o to_be_bytes(e.timestamp[1], 4)
             ELSE <<TAG_DELETED>>)
            \o e.key
      [] e.tag = "PosLen" ->
            <<TAG_POSLEN32>> \o to_be_bytes(e.blockpos, 8)
            \o to_be_bytes(e.blocklen, 4) \o e.key

\* The buffer with its CRC slot filled from entry[8..total_size - 1], and
\* the TAG_END pushed.
Sealed(entry, total_size) ==
    SubSeq(entry, 1, 4)
    \o to_be_bytes(crc32(SubSeq(entry, 9, total_size - 1)), 4)
    \o SubSeq(entry, 9, Len(entry))
    \o <<TAG_END>>

\* Entry::encode
encode(e) ==
    Sealed(to_be_bytes(LengthField(EncodedSize(e)), 4) \o <<0, 0, 0, 0>> \o EntryData(e),
           EncodedSize(e))

\* The result of Entry::read: [err, entry]; err is "none" for Ok and
\* "panic" for an index out of range.
ReadResult(err, entry) == [err |-> err, entry |-> entry]

NoRead == ReadResult("not read", NoEntryBytes)

\* The match on the tag byte (entry.rs 84-134).
ParseEntry(entry_data, n) ==
    CASE entry_data[1] = TAG_KV_DATA ->
            IF n < 5 \/ from_be_bytes(SubSeq(entry_data, 2, 5)) > n - 5
            THEN ReadResult("panic", NoEntryBytes)
            ELSE ReadResult("none",
                    EntryKeyVal(SubSeq(entry_data, 6,
                                       5 + from_be_bytes(SubSeq(entry_data, 2, 5))),
                                SubSeq(entry_data,
                                       6 + from_be_bytes(SubSeq(entry_data, 2, 5)), n),
                                <<>>))
      [] entry_data[1] = TAG_KV_DATA2 ->
            IF n < 9 \/ from_be_bytes(SubSeq(entry_data, 6, 9)) > n - 9
            THEN ReadResult("panic", NoEntryBytes)
            ELSE ReadResult("none",
                    EntryKeyVal(SubSeq(entry_data, 10,
                                       9 + from_be_bytes(SubSeq(entry_data, 6, 9))),
                                SubSeq(entry_data,
                                       10 + from_be_bytes(SubSeq(entry_data, 6, 9)), n),
                                <<from_be_bytes(SubSeq(entry_data, 2, 5))>>))
      [] entry_data[1] = TAG_DELETED ->
            ReadResult("none", EntryDeleted(SubSeq(entry_data, 2, n), <<>>))
      [] entry_data[1] = TAG_DELETED2 ->
            IF n < 5 THEN ReadResult("panic", NoEntryBytes)
            ELSE ReadResult("none",
                    EntryDeleted(SubSeq(entry_data, 6, n),
                                 <<from_be_bytes(SubSeq(entry_data, 2, 5))>>))
      [] entry_data[1] = TAG_POSLEN32 ->
            IF n < 13 THEN ReadResult("panic", NoEntryBytes)
            ELSE ReadResult("none",
                    EntryPosLen(from_be_bytes(SubSeq(entry_data, 2, 9)),
                                from_be_bytes(SubSeq(entry_data, 10, 13)),
                                SubSeq(entry_data, 14, n)))
      [] OTHER -> ReadResult("InvalidEntryTag", NoEntryBytes)

\* The trailing byte after the parsed entry p (entry.rs 135-140).
Terminated(file, length, p) ==
    IF p.err # "none" THEN p
    ELSE IF Len(file) < 9 + length THEN ReadResult("UnexpectedEof", NoEntryBytes)
    ELSE IF file[9 + length] # TAG_END THEN ReadResult("CorruptedFile", NoEntryBytes)
    ELSE p

\* The entry data once read (entry.rs 79-84).
Checked(file, length, orig_crc, entry_data) ==
    IF crc32(entry_data) # orig_crc THEN ReadResult("CorruptedFile", NoEntryBytes)
    ELSE IF entry_data = <<>> THEN ReadResult("panic", NoEntryBytes)
    ELSE Terminated(file, length, ParseEntry(entry_data, length))

\* The header once read (entry.rs 69-78).
WithHeader(file, length, orig_crc) ==
    IF Len(file) < 8 + length THEN ReadResult("IncompleteEntry", NoEntryBytes)
    ELSE Checked(file, length, orig_crc, SubSeq(file, 9, 8 + length))

\* Entry::read on a stream holding the bytes.
read(file) ==
    IF Len(file) < 8 THEN ReadResult("EndOfFile", NoEntryBytes)
    ELSE WithHeader(file, from_be_bytes(SubSeq(file, 1, 4)),
                    from_be_bytes(SubSeq(file, 5, 8)))

\* ------------------------------------------------------------------------
\* State
\* ------------------------------------------------------------------------
VARIABLES
    cfg,        \* OpenOptions: [min_level, max_level]
    disk,       \* the directory: nursery.log, nursery.data, {A,B,C,M,X}-L.data
    nursery,    \* Nursery: [data, step]
    levels,     \* HanoiDB.levels: per level the open slots and the merger
    queue,      \* handle_commands' VecDeque
    pc,         \* where the process is: "closed", "idle", or inside a mutation
    cur,        \* the mutation in progress
    hist,       \* history: what was acknowledged, how the handle was closed, ...
    minput,     \* the two inputs of a stand-alone merge
    mstate,     \* the stand-alone merger and its outcome
    writer,     \* a stand-alone Writer
    wfile,      \* the file of the stand-alone Writer once closed
    whist,      \* history of the stand-alone Writer: the add calls so far
    ent,        \* a stand-alone Entry: [entry, bytes, decoded, step]
    nhist       \* history of the stand-alone Nursery: its calls and results

wvars == <<writer, wfile, whist, ent>>

vars == <<cfg, disk, nursery, levels, queue, pc, cur, hist, minput, mstate, wvars, nhist>>

dbvars == <<cfg, disk, nursery, levels, queue, pc, cur, hist>>

NoCur == [key |-> 0, entry |-> NoEntry, commands |-> <<>>, plan |-> <<>>,
          after |-> <<>>, level |-> 0, started |-> FALSE]

Gets(n, lvs, d, c) == [k \in Keys |-> get(n, lvs, d, c, k)]

NoGets == [k \in Keys |-> [ok |-> TRUE, entry |-> NoEntry]]

\* The merge completion of the current call: its level, the closed X file
\* and the C file when it began, the commands it returns, and whether its
\* filesystem operations are all done.
NoCompletion ==
    [level |-> 0, x |-> NoFile, c |-> NoFile, after |-> <<>>, done |-> FALSE]

NoHist ==
    [acked |-> EmptyData, budget |-> 0, ops |-> 0, reopens |-> 0, durable |-> FALSE,
     deletes |-> 0, post |-> 0, enqueued |-> 0, before |-> NoGets, all_ok |-> TRUE, fault |-> "none", dispatched |-> 0, born |-> NoBorn,
     clock |-> 0, closed_by |-> "none", crash_pc |-> "none", crash_op |-> "none",
     crash_key |-> 0, saved |-> NoGets, opened |-> "none", last |-> "none",
     ab_at_open |-> {}, completion |-> NoCompletion, iterations |-> 0]

NoMergeInput == [a |-> <<>>, b |-> <<>>]

\* added: the entries whose add returned Ok; offered: the entry of the last
\* add; leaf_last: the last entry of the pending leaf block when that add
\* was called (NoEntry when there was none); last: the result of the last
\* add or close.
NoWriterHist == [added |-> <<>>, offered |-> NoEntry, leaf_last |-> NoEntry,
                 last |-> "none", calls |-> 0]

\* calls: the calls since Nursery::new, all_ok: they all returned Ok; total
\* and news: the calls and the Nursery::new calls of the run; last: what
\* happened last; commands: what the last call returned; len_after: the size
\* of the map once the last call had inserted its key; drained: the entries
\* the last call drained; had_log, replayed: the log Nursery::new found;
\* recovery: the command Nursery::new returned.
NoNurseryHist ==
    [calls |-> 0, all_ok |-> TRUE, total |-> 0, news |-> 0, last |-> "none",
     commands |-> <<>>, len_after |-> 0, drained |-> <<>>, had_log |-> FALSE,
     replayed |-> <<>>, recovery |-> <<>>, err |-> "none"]

\* No stand-alone Entry is in use.
NoEnt == [entry |-> NoEntryBytes, bytes |-> <<>>, decoded |-> NoRead, step |-> "none"]

\* No stand-alone Writer is in use.
NoWriter ==
    /\ writer = with_expected_num_items
    /\ wfile = NoFile
    /\ whist = NoWriterHist
    /\ ent = NoEnt

NoMergeState == [outcome |-> "none", merger |-> NoMerger, count |-> 0, steps |-> 0,
                 calls |-> 0, work |-> 0, x |-> NoFile, iterations |-> 0]

\* A fresh directory opened with the options: HanoiDB::with_options.  budget
\* is the number of calls the run makes at most.
Opening(budget) ==
    /\ cfg \in Configs
    /\ disk = FreshDisk
    /\ nursery = EmptyNursery
    /\ levels = NoLevels
    /\ queue = <<>>
    /\ pc = "idle"
    /\ cur = NoCur
    /\ hist = [NoHist EXCEPT !.budget = budget]
    /\ minput = NoMergeInput
    /\ mstate = NoMergeState
    /\ NoWriter
    /\ nhist = NoNurseryHist

Init == Opening(MaxOps)

InitReopen == Opening(MaxOpsWithReopen)

\* The history of promotion numbers after one filesystem operation.
BornAfter(b, op) ==
    CASE op = "remove A" -> [b EXCEPT !.A = 0]
      [] op = "remove B" -> [b EXCEPT !.B = 0]
      [] op = "rename X M" -> [b EXCEPT !.M = b.B]
      [] op = "rename M A" -> [b EXCEPT !.A = b.M, !.M = 0]
      [] op = "rename C B" -> [b EXCEPT !.B = b.C, !.C = 0]
      [] op = "rename C A" -> [b EXCEPT !.A = b.C, !.C = 0]

\* ------------------------------------------------------------------------
\* insert / delete: Nursery::write_internal, then handle_commands
\* ------------------------------------------------------------------------
\* nursery.rs 81-82: the map is updated and the record written to the log.
BeginWith(k, kind, len) ==
    /\ pc = "idle"
    /\ hist.ops < hist.budget
    /\ kind = "delete" => hist.deletes < MaxDeletes
    /\ hist.reopens > 0 => hist.post < MaxOpsAfterReopen
    /\ LET entry == IF kind = "insert" THEN KeyVal(k, Value(hist.ops + 1, len)) ELSE Deleted(k)
       IN  /\ nursery' = [nursery EXCEPT !.data[k] = entry]
           /\ disk' = [disk EXCEPT !.log = write_all(@, entry)]
           /\ cur' = [NoCur EXCEPT !.key = k, !.entry = entry]
    /\ pc' = "sync"
    /\ hist' = [hist EXCEPT !.ops = @ + 1, !.durable = FALSE, !.dispatched = 0,
                            !.enqueued = 0,
                            !.deletes = IF kind = "delete" THEN @ + 1 ELSE @,
                            !.post = IF hist.reopens > 0 THEN @ + 1 ELSE @,
                            !.last = "none", !.completion = NoCompletion,
                            !.iterations = 0]
    /\ UNCHANGED <<cfg, levels, queue, minput, mstate, wvars, nhist>>

\* An insert of a one-byte value, or a delete.
Begin(k, kind) == BeginWith(k, kind, 1)

\* nursery.rs 83-89 and, when no flush is due, 120-131.
Sync ==
    /\ pc = "sync"
    /\ LET log1 == sync_data(disk.log)
           t == TriggerMerge(nursery.step, cfg.min_level)
       IN  /\ disk' = [disk EXCEPT !.log = log1]
           /\ hist' = [hist EXCEPT
                         !.durable =
                            /\ log1.entries # <<>>
                            /\ log1.synced = Len(log1.entries)
                            /\ Last(log1.entries) = cur.entry,
                         !.enqueued =
                            IF DataLen(nursery.data) >= level_size(cfg.min_level)
                            THEN 0 ELSE Len(t.commands)]
           /\ IF DataLen(nursery.data) >= level_size(cfg.min_level)
              THEN /\ pc' = "flush"
                   /\ UNCHANGED <<nursery, queue>>
              ELSE /\ pc' = "dispatch"
                   /\ nursery' = [nursery EXCEPT !.step = t.step]
                   /\ queue' = t.commands
    /\ UNCHANGED <<cfg, levels, cur, minput, mstate, wvars, nhist>>

\* nursery.rs 90-111: nursery.data is written from the drained map.
FlushWrite ==
    /\ pc = "flush"
    /\ IF Exists(disk.ndata)
       THEN /\ pc' = "idle"
            /\ cur' = NoCur
            /\ hist' = [hist EXCEPT !.all_ok = FALSE, !.last = "err"]
            /\ UNCHANGED <<disk, nursery>>
       ELSE /\ pc' = "truncate"
            /\ disk' = [disk EXCEPT !.ndata =
                          close(AddAll(with_expected_num_items,
                                       DataEntries(nursery.data)))]
            /\ nursery' = [nursery EXCEPT !.data = EmptyData]
            /\ cur' = [cur EXCEPT !.commands =
                          <<PromoteFile("nursery.data", 0, cfg.min_level)>>]
            /\ UNCHANGED hist
    /\ UNCHANGED <<cfg, levels, queue, minput, mstate, wvars, nhist>>

\* nursery.rs 113-131: the log is truncated, then the merge trigger.
FlushTruncate ==
    /\ pc = "truncate"
    /\ LET t == TriggerMerge(nursery.step, cfg.min_level)
       IN  /\ disk' = [disk EXCEPT !.log = EmptyLog]
           /\ nursery' = [nursery EXCEPT !.step = t.step]
           /\ queue' = cur.commands \o t.commands
           /\ hist' = [hist EXCEPT !.enqueued = Len(cur.commands \o t.commands)]
    /\ pc' = "dispatch"
    /\ UNCHANGED <<cfg, levels, cur, minput, mstate, wvars, nhist>>

\* The process is gone: nothing of the handle is left.
Gone(by) ==
    /\ pc' = "closed"
    /\ nursery' = EmptyNursery
    /\ levels' = NoLevels
    /\ queue' = <<>>
    /\ cur' = NoCur

\* db.rs 137-139: one command is popped and handled.
Dispatched(command, r, h) ==
    CASE r.result = "ok" ->
           /\ disk' = r.disk
           /\ levels' = r.levels
           /\ hist' = IF command.cmd = "PromoteFile"
                      THEN [h EXCEPT !.clock = @ + 1,
                                     !.born[command.target_level][r.slot] = h.clock + 1]
                      ELSE IF r.plan # <<>>
                      THEN [h EXCEPT !.before = Gets(nursery, levels, disk, cfg),
                                     !.completion =
                                        [level |-> command.target_level,
                                         x |-> r.disk.lv[command.target_level].X,
                                         c |-> r.disk.lv[command.target_level].C,
                                         after |-> r.after,
                                         done |-> FALSE]]
                      ELSE [h EXCEPT !.enqueued = @ + Len(r.commands)]
           /\ IF r.plan # <<>>
              THEN /\ pc' = "complete"
                   /\ cur' = [cur EXCEPT !.plan = r.plan, !.after = r.after,
                                         !.level = command.target_level,
                                         !.started = FALSE]
                   /\ queue' = Tail(queue)
              ELSE /\ pc' = "dispatch"
                   /\ cur' = cur
                   /\ queue' = Tail(queue) \o r.commands
           /\ UNCHANGED nursery
      [] r.result = "err" ->
           /\ disk' = r.disk
           /\ levels' = r.levels
           /\ hist' = [h EXCEPT !.all_ok = FALSE, !.last = "err"]
           /\ pc' = "idle"
           /\ cur' = NoCur
           /\ queue' = <<>>
           /\ UNCHANGED nursery
      [] r.result = "panic" ->
           /\ disk' = r.disk
           /\ hist' = [h EXCEPT !.all_ok = FALSE, !.last = "panic",
                                !.fault = r.fault, !.closed_by = "panic",
                                !.crash_pc = pc, !.crash_op = "none",
                                !.crash_key = cur.key,
                                !.saved = Gets(nursery, levels, disk, cfg),
                                !.opened = "none"]
           /\ Gone("panic")

\* The iterations of the merge loop a call of incremental_merge with the
\* budget ran before it returned o (merger.rs 31-41).
IterationsIn(o, steps) ==
    IF o.outcome = "Continue" THEN steps
    ELSE IF o.outcome = "Complete" THEN o.steps
    ELSE 0

\* The iterations Level::merge runs, c being what maybe_create_merger
\* returned and steps the budget.
IterationsAt(c, steps) ==
    IF c.err = "none" /\ c.lv.has_merger /\ steps > 0
    THEN IterationsIn(incremental_merge(c.lv.merger, steps), steps)
    ELSE 0

\* The merger iterations the command runs when it is handled.
IterationsOf(command) ==
    IF command.cmd = "Merge" /\ ValidLevel(command.target_level, cfg)
    THEN IterationsAt(maybe_create_merger(levels[command.target_level],
                                          disk.lv[command.target_level]),
                      MergeSteps(command.target_level, command.steps,
                                 level_size(cfg.min_level) \div 2,
                                 cfg.min_level, cfg.max_level))
    ELSE 0

Dispatch ==
    /\ pc = "dispatch"
    /\ queue # <<>>
    /\ Dispatched(Head(queue), handle_command(disk, levels, Head(queue), cfg),
                  [hist EXCEPT !.dispatched = @ + 1,
                               !.iterations = @ + IterationsOf(Head(queue))])
    /\ UNCHANGED <<cfg, minput, mstate, wvars, nhist>>

\* level.rs 123-157: the next filesystem operation of a merge completion.
CompleteStep ==
    /\ pc = "complete"
    /\ LET op == Head(cur.plan)
           L == cur.level
           r == ApplyFsOp(levels[L], disk.lv[L], op)
       IN  /\ disk' = [disk EXCEPT !.lv[L] = r.files]
           /\ levels' = [levels EXCEPT ![L] = r.lv]
           /\ hist' = [hist EXCEPT !.born[L] = BornAfter(@, op),
                                   !.completion.done = (Tail(cur.plan) = <<>>),
                                   !.enqueued = IF Tail(cur.plan) = <<>>
                                                THEN @ + Len(cur.after) ELSE @]
           /\ IF Tail(cur.plan) = <<>>
              THEN /\ pc' = "dispatch"
                   /\ queue' = queue \o cur.after
                   /\ cur' = [cur EXCEPT !.plan = <<>>, !.after = <<>>, !.level = 0,
                                         !.started = FALSE]
              ELSE /\ pc' = "complete"
                   /\ queue' = queue
                   /\ cur' = [cur EXCEPT !.plan = Tail(@), !.started = TRUE]
    /\ UNCHANGED <<cfg, nursery, minput, mstate, wvars, nhist>>

\* db.rs 141: the queue is empty, the mutation returns Ok.
Return ==
    /\ pc = "dispatch"
    /\ queue = <<>>
    /\ pc' = "idle"
    /\ hist' = [hist EXCEPT !.acked[cur.key] = cur.entry, !.last = "ok"]
    /\ cur' = NoCur
    /\ UNCHANGED <<cfg, disk, nursery, levels, queue, minput, mstate, wvars, nhist>>

\* ------------------------------------------------------------------------
\* drop, process stop, reopen
\* ------------------------------------------------------------------------
\* Where inside the mutation the process stops.
CrashPoint ==
    IF pc = "truncate" THEN "data written"
    ELSE IF pc = "dispatch" /\ queue # <<>> /\ Head(queue).cmd = "PromoteFile"
            /\ Head(queue).path = "nursery.data"
    THEN "log truncated"
    ELSE IF pc = "complete" /\ cur.started THEN "in completion"
    ELSE "none"

Closing(by) ==
    /\ hist.reopens < MaxReopens
    /\ hist' = [hist EXCEPT !.closed_by = by, !.crash_pc = pc,
                            !.crash_op = CrashPoint,
                            !.crash_key = cur.key,
                            !.saved = Gets(nursery, levels, disk, cfg),
                            !.opened = "none"]
    /\ Gone(by)
    /\ UNCHANGED <<cfg, disk, minput, mstate, wvars, nhist>>

\* The handle is dropped between two calls.
Drop == pc = "idle" /\ Closing("drop")

\* The process stops inside a mutation.
Crash == pc \notin {"idle", "closed"} /\ Closing("crash")

\* HanoiDB::with_options on the directory as it was left.
Reopened(r) ==
    /\ disk' = r.disk
    /\ levels' = r.levels
    /\ pc' = IF r.result = "ok" THEN "idle" ELSE "closed"
    /\ hist' = [hist EXCEPT
                  !.reopens = @ + 1,
                  !.opened = r.result,
                  !.fault = IF r.result = "panic" THEN r.fault ELSE @,
                  !.last = "none",
                  !.ab_at_open =
                      {L \in cfg.min_level..cfg.max_level :
                          IsTree(disk.lv[L].A) /\ IsTree(disk.lv[L].B)},
                  !.clock = IF r.slot # "" THEN @ + 1 ELSE @,
                  !.born = IF r.slot # ""
                           THEN [@ EXCEPT ![cfg.min_level][r.slot] = hist.clock + 1]
                           ELSE @]

Open ==
    /\ pc = "closed"
    /\ hist.opened = "none"
    /\ hist.reopens < MaxReopens
    /\ Reopened(with_options(disk, cfg))
    /\ nursery' = EmptyNursery
    /\ queue' = <<>>
    /\ cur' = NoCur
    /\ UNCHANGED <<cfg, minput, mstate, wvars, nhist>>

\* One handle, from open to the last call.
Next ==
    \/ \E k \in Keys, kind \in {"insert", "delete"} : Begin(k, kind)
    \/ Sync
    \/ FlushWrite
    \/ FlushTruncate
    \/ Dispatch
    \/ CompleteStep
    \/ Return

Spec == Init /\ [][Next]_vars

\* The same with drops, process stops and reopens.
NextReopen ==
    \/ Next
    \/ Drop
    \/ Crash
    \/ Open

SpecReopen == InitReopen /\ [][NextReopen]_vars

\* ------------------------------------------------------------------------
\* A client that loads keys in ascending order into a database of two
\* levels: every insert writes the highest key acknowledged so far again,
\* or the next key.
\* ------------------------------------------------------------------------
InitLoad ==
    /\ Opening(MaxLoadOps)
    /\ cfg.min_level = 1
    /\ cfg.max_level > 1

HighestAcked ==
    IF \A k \in KeySpace : hist.acked[k] = NoEntry THEN 0
    ELSE CHOOSE k \in KeySpace :
            /\ hist.acked[k] # NoEntry
            /\ \A j \in KeySpace : hist.acked[j] # NoEntry => j <= k

\* The keys the client may write next.
LoadChoices == KeySpace \cap {HighestAcked, HighestAcked + 1}

NextLoad ==
    \/ \E k \in LoadChoices : Begin(k, "insert")
    \/ Sync
    \/ FlushWrite
    \/ FlushTruncate
    \/ Dispatch
    \/ CompleteStep
    \/ Return

SpecLoad == InitLoad /\ [][NextLoad]_vars

\* ------------------------------------------------------------------------
\* A client that inserts values of one byte and values that fill a block on
\* their own.
\* ------------------------------------------------------------------------
InitLarge ==
    /\ Opening(MaxLargeOps)
    /\ cfg.min_level = 1

NextLarge ==
    \/ \E k \in Keys, len \in {1, BigValueLen} : BeginWith(k, "insert", len)
    \/ Sync
    \/ FlushWrite
    \/ FlushTruncate
    \/ Dispatch
    \/ CompleteStep
    \/ Return

SpecLarge == InitLarge /\ [][NextLarge]_vars

\* ------------------------------------------------------------------------
\* A merger on its own: two files built by the Writer, merged by successive
\* incremental_merge calls.
\* ------------------------------------------------------------------------
MergeChoices == {"absent", "small", "big", "deleted"}

MergeEntry(choice, k, id) ==
    CASE choice = "small" -> <<KeyVal(k, Value(id, 1))>>
      [] choice = "big" -> <<KeyVal(k, Value(id, BigValueLen))>>
      [] choice = "deleted" -> <<Deleted(k)>>
      [] OTHER -> <<>>

RECURSIVE InputFrom(_, _, _)
InputFrom(f, id, k) ==
    IF k > MergeKeys THEN <<>>
    ELSE MergeEntry(f[k], k, id) \o InputFrom(f, id, k + 1)

\* The file the Writer builds from the entries.
Written(members) == close(AddAll(with_expected_num_items, members))

InitMerge ==
    /\ cfg = [min_level |-> 0, max_level |-> 0]
    /\ disk = FreshDisk
    /\ nursery = EmptyNursery
    /\ levels = NoLevels
    /\ queue = <<>>
    /\ pc = "merging"
    /\ cur = NoCur
    /\ hist = NoHist
    /\ \E fa, fb \in [MergeKeySet -> MergeChoices] :
          minput = [a |-> InputFrom(fa, 1, 1), b |-> InputFrom(fb, 2, 1)]
    /\ mstate = [NoMergeState EXCEPT
                    !.merger = MergerNew(Written(minput.a), Written(minput.b))]
    /\ NoWriter
    /\ nhist = NoNurseryHist

\* One Merger::incremental_merge(work) call.
Called(r, work) ==
    mstate' = [outcome |-> r.outcome, merger |-> r.merger, count |-> r.count,
               steps |-> r.steps, calls |-> mstate.calls + 1, work |-> work,
               iterations |-> mstate.iterations + IterationsIn(r, work),
               x |-> IF r.outcome = "Complete" THEN close(r.merger.x) ELSE NoFile]

MergeCall(work) ==
    /\ pc = "merging"
    /\ mstate.outcome \in {"none", "Continue"}
    /\ Called(incremental_merge(mstate.merger, work), work)
    /\ UNCHANGED <<dbvars, minput, wvars, nhist>>

NextMerge == \E work \in 1..MaxWork : MergeCall(work)

SpecMerge == InitMerge /\ [][NextMerge]_vars

\* ------------------------------------------------------------------------
\* A Writer on its own: add calls with entries in any order, then close, and
\* the file read back through Tree.
\* ------------------------------------------------------------------------
WriterKeySet == 1..WriterKeys

\* The last entry of the leaf block the next add appends to (NoEntry when
\* the writer has no pending leaf block or the block is empty).
LeafLast(w) ==
    IF w.blocks # <<>> /\ Last(w.blocks).level = 0 /\ Last(w.blocks).members # <<>>
    THEN Last(Last(w.blocks).members)
    ELSE NoEntry

InitWriter ==
    /\ cfg = [min_level |-> 0, max_level |-> 0]
    /\ disk = FreshDisk
    /\ nursery = EmptyNursery
    /\ levels = NoLevels
    /\ queue = <<>>
    /\ pc = "writing"
    /\ cur = NoCur
    /\ hist = NoHist
    /\ minput = NoMergeInput
    /\ mstate = NoMergeState
    /\ NoWriter
    /\ nhist = NoNurseryHist

\* The result w1 of Writer::add(entry) on the writer.
Added(w1, entry) ==
    /\ writer' = w1
    /\ whist' = [added |-> IF w1.err = "none" THEN Append(whist.added, entry)
                           ELSE whist.added,
                 offered |-> entry,
                 leaf_last |-> LeafLast(writer),
                 last |-> IF w1.err = "none" THEN "ok" ELSE w1.err,
                 calls |-> whist.calls + 1]
    /\ pc' = IF w1.err = "none" THEN "writing" ELSE "rejected"

\* One Writer::add call.
WriterAdd(entry) ==
    /\ pc = "writing"
    /\ whist.calls < MaxAdds
    /\ Added(add(writer, entry), entry)
    /\ UNCHANGED <<cfg, disk, nursery, levels, queue, cur, hist, minput, mstate,
                   wfile, nhist, ent>>

\* The result of Writer::close, w1 being the writer with its pending blocks
\* flushed.
Closed(w1) ==
    /\ writer' = w1
    /\ wfile' = IF w1.err = "none" THEN Trailer(w1) ELSE FileOf(w1)
    /\ whist' = [whist EXCEPT !.offered = NoEntry, !.leaf_last = NoEntry,
                              !.last = IF w1.err = "none" THEN "closed" ELSE w1.err]
    /\ pc' = IF w1.err = "none" THEN "written" ELSE "rejected"

\* Writer::close
WriterClose ==
    /\ pc = "writing"
    /\ Closed(DrainBlocks(writer))
    /\ UNCHANGED <<cfg, disk, nursery, levels, queue, cur, hist, minput, mstate,
                   nhist, ent>>

\* ------------------------------------------------------------------------
\* An entry on its own: encoded, then read back from the bytes.
\* ------------------------------------------------------------------------
\* The byte strings of at most n bytes.
BytesUpTo(n) == UNION {[1..m -> {0, 1, 255}] : m \in 0..n}

EntryKeys == BytesUpTo(MaxEntryKeyLen)

EntryValues == BytesUpTo(MaxEntryValueLen)

Timestamps == {<<>>, <<0>>, <<1>>, <<16909060>>}

EntryInputs ==
    {EntryKeyVal(k, v, ts) : k \in EntryKeys, v \in EntryValues, ts \in Timestamps}
    \cup {EntryDeleted(k, ts) : k \in EntryKeys, ts \in Timestamps}
    \cup {EntryPosLen(pos, len, k) :
            pos \in {0, FIRST_BLOCK_POS, 16777473}, len \in {0, 20, 8196},
            k \in EntryKeys}

InitEntry ==
    /\ cfg = [min_level |-> 0, max_level |-> 0]
    /\ disk = FreshDisk
    /\ nursery = EmptyNursery
    /\ levels = NoLevels
    /\ queue = <<>>
    /\ pc = "entry"
    /\ cur = NoCur
    /\ hist = NoHist
    /\ minput = NoMergeInput
    /\ mstate = NoMergeState
    /\ writer = with_expected_num_items
    /\ wfile = NoFile
    /\ whist = NoWriterHist
    /\ nhist = NoNurseryHist
    /\ \E e \in EntryInputs : ent = [NoEnt EXCEPT !.entry = e, !.step = "new"]

\* Entry::encode
EntryEncode ==
    /\ pc = "entry"
    /\ ent.step = "new"
    /\ ent' = [ent EXCEPT !.bytes = encode(ent.entry), !.step = "encoded"]
    /\ UNCHANGED <<dbvars, minput, mstate, writer, wfile, whist, nhist>>

\* Entry::read
EntryRead ==
    /\ pc = "entry"
    /\ ent.step = "encoded"
    /\ ent' = [ent EXCEPT !.decoded = read(ent.bytes), !.step = "read"]
    /\ UNCHANGED <<dbvars, minput, mstate, writer, wfile, whist, nhist>>

NextEntry ==
    \/ EntryEncode
    \/ EntryRead

SpecEntry == InitEntry /\ [][NextEntry]_vars

NextWriter ==
    \/ \E k \in WriterKeySet, choice \in {"small", "big", "deleted"} :
          WriterAdd(MergeEntry(choice, k, whist.calls + 1)[1])
    \/ WriterClose

SpecWriter == InitWriter /\ [][NextWriter]_vars

\* ------------------------------------------------------------------------
\* A Nursery on its own: Nursery::new, add and delete calls whose commands
\* go back to the caller, the handle dropped or the process stopped, and
\* Nursery::new again on the directory.
\* ------------------------------------------------------------------------
InitNursery ==
    /\ cfg \in {c \in [min_level : 0..MaxNurseryMinLevel,
                        max_level : 0..MaxNurseryMinLevel] :
                   c.min_level = c.max_level}
    /\ disk = FreshDisk
    /\ nursery = EmptyNursery
    /\ levels = NoLevels
    /\ queue = <<>>
    /\ pc = "nursery"
    /\ cur = NoCur
    /\ hist = NoHist
    /\ minput = NoMergeInput
    /\ mstate = NoMergeState
    /\ NoWriter
    /\ nhist = NoNurseryHist

\* The result r of Nursery::add or Nursery::delete with the entry.
NurseryCalled(r, entry) ==
    /\ nursery' = r.nursery
    /\ disk' = r.disk
    /\ nhist' = [nhist EXCEPT
                   !.calls = IF r.err = "none" THEN @ + 1 ELSE @,
                   !.all_ok = @ /\ r.err = "none",
                   !.total = @ + 1,
                   !.last = IF r.err = "none" THEN "ok" ELSE "err",
                   !.err = r.err,
                   !.commands = r.commands,
                   !.len_after = DataLen([nursery.data EXCEPT ![entry.key] = entry]),
                   !.drained = IF r.err = "none" /\ r.nursery.data = EmptyData
                               THEN DataEntries([nursery.data EXCEPT ![entry.key] = entry])
                               ELSE <<>>]

\* Nursery::add (kind "insert") and Nursery::delete
NurseryCall(k, kind) ==
    /\ pc = "nursery"
    /\ nhist.total < MaxNurseryCalls
    /\ NurseryCalled(
          write_internal(nursery, disk,
                         IF kind = "insert" THEN KeyVal(k, Value(nhist.total + 1, 1))
                         ELSE Deleted(k),
                         cfg.min_level),
          IF kind = "insert" THEN KeyVal(k, Value(nhist.total + 1, 1)) ELSE Deleted(k))
    /\ UNCHANGED <<cfg, levels, queue, pc, cur, hist, minput, mstate, wvars>>

\* The caller runs the PromoteFile command: level.rs 57-74 renames
\* nursery.data into a slot of the level.
PromoteTaken ==
    /\ pc = "nursery"
    /\ Exists(disk.ndata)
    /\ disk' = [disk EXCEPT !.ndata = NoFile]
    /\ nhist' = [nhist EXCEPT !.last = "promoted"]
    /\ UNCHANGED <<cfg, nursery, levels, queue, pc, cur, hist, minput, mstate, wvars>>

\* The Nursery is dropped between two calls.
NurseryDrop ==
    /\ pc = "nursery"
    /\ nhist.news < MaxNurseryNews
    /\ pc' = "nclosed"
    /\ nursery' = EmptyNursery
    /\ nhist' = [nhist EXCEPT !.last = "drop"]
    /\ UNCHANGED <<cfg, disk, levels, queue, cur, hist, minput, mstate, wvars>>

\* The process stops inside log.write_all (nursery.rs 82): the log ends with
\* a record that cannot be read.
NurseryCrash ==
    /\ pc = "nursery"
    /\ nhist.news < MaxNurseryNews
    /\ nhist.total < MaxNurseryCalls
    /\ pc' = "nclosed"
    /\ nursery' = EmptyNursery
    /\ disk' = [disk EXCEPT !.log = write_all(@, Torn)]
    /\ nhist' = [nhist EXCEPT !.last = "crash", !.total = @ + 1]
    /\ UNCHANGED <<cfg, levels, queue, cur, hist, minput, mstate, wvars>>

\* The result r of Nursery::recover inside Nursery::new (nursery.rs 31-50).
NurseryOpened(r) ==
    /\ disk' = IF r.err = "none" THEN [r.disk EXCEPT !.log = EmptyLog] ELSE r.disk
    /\ pc' = IF r.err = "none" THEN "nursery" ELSE "nclosed"
    /\ nhist' = [nhist EXCEPT
                   !.calls = 0,
                   !.all_ok = TRUE,
                   !.news = @ + 1,
                   !.last = IF r.err = "none" THEN "new" ELSE "new err",
                   !.commands = <<>>,
                   !.had_log = disk.log.exists,
                   !.replayed = disk.log.entries,
                   !.recovery = r.command]

\* Nursery::new on the directory as it was left.
NurseryNew ==
    /\ pc = "nclosed"
    /\ nhist.last \in {"drop", "crash"}
    /\ NurseryOpened(recover(disk, cfg.min_level))
    /\ nursery' = EmptyNursery
    /\ UNCHANGED <<cfg, levels, queue, cur, hist, minput, mstate, wvars>>

NextNursery ==
    \/ \E k \in Keys, kind \in {"insert", "delete"} : NurseryCall(k, kind)
    \/ PromoteTaken
    \/ NurseryDrop
    \/ NurseryCrash
    \/ NurseryNew

SpecNursery == InitNursery /\ [][NextNursery]_vars

\* ------------------------------------------------------------------------
\* A Nursery whose log can fail: a call of add or delete in which
\* log.write_all or log.sync_data returns an error, between calls that
\* succeed.
\* ------------------------------------------------------------------------
NurseryCallFails(k, kind, fault, partial) ==
    /\ pc = "nursery"
    /\ NurseryCalled(
          write_internal_failing(
              nursery, disk,
              IF kind = "insert" THEN KeyVal(k, Value(nhist.total + 1, 1)) ELSE Deleted(k),
              fault, partial),
          IF kind = "insert" THEN KeyVal(k, Value(nhist.total + 1, 1)) ELSE Deleted(k))
    /\ UNCHANGED <<cfg, levels, queue, pc, cur, hist, minput, mstate, wvars>>

NextNurseryFault ==
    \/ /\ nhist.total < MaxFaultCalls
       /\ \E k \in Keys, kind \in {"insert", "delete"} : NurseryCall(k, kind)
    \/ /\ nhist.total < MaxFaultCalls
       /\ \E k \in Keys, kind \in {"insert", "delete"},
             fault \in {"write_all", "sync_data"}, partial \in BOOLEAN :
             NurseryCallFails(k, kind, fault, partial)
    \/ PromoteTaken

SpecNurseryFault == InitNursery /\ [][NextNurseryFault]_vars

\* ------------------------------------------------------------------------
\* Properties
\* ------------------------------------------------------------------------
\* What get must return for a key, by its last acknowledged mutation.
Expected(k) ==
    [ok |-> TRUE,
     entry |-> IF hist.acked[k].tag = "KeyVal" THEN hist.acked[k] ELSE NoEntry]

\* The levels of the configuration.
OpenRange == cfg.min_level..cfg.max_level

\* The handle is between two calls, every call so far returned Ok and the
\* directory was never reopened.
Quiet == pc = "idle" /\ hist.all_ok /\ hist.reopens = 0

\* C1: after any sequence of insert and delete calls that all returned Ok,
\* get(k) returns the value of the last insert of k, and None when k was
\* never inserted or was deleted last.
C1_GetReturnsLastWrite ==
    Quiet => \A k \in Keys : get(nursery, levels, disk, cfg, k) = Expected(k)

\* The handle was dropped after calls that all returned Ok, and open was
\* called on the directory.
ReopenedAfterDrop ==
    /\ hist.closed_by = "drop"
    /\ hist.all_ok
    /\ hist.opened # "none"
    /\ hist.post = 0
    /\ pc \in {"idle", "closed"}

\* C2: after a drop that follows successful calls, open on the same directory
\* succeeds and every get returns what it returned before the drop.
C2_ReopenKeepsEveryGet ==
    ReopenedAfterDrop =>
        /\ hist.opened = "ok"
        /\ Gets(nursery, levels, disk, cfg) = hist.saved

\* C3: in every insert and delete, the entry is appended to nursery.log and
\* sync_data has returned before any command of the mutation is dispatched
\* and before the call returns Ok.
C3_LogSyncedBeforeDispatchAndOk ==
    (hist.dispatched > 0 \/ hist.last = "ok") => hist.durable

\* A mutation that flushed the nursery has dispatched its PromoteFile and its
\* Merge with the entry on disk.
C3_Witness ==
    /\ pc = "dispatch"
    /\ hist.dispatched >= 2
    /\ hist.durable
    /\ cur.commands # <<>>

\* C4: a PromoteFile is never dispatched to a level whose slots A, B and C
\* are all occupied.
C4_NeverPromoteIntoFullLevel == hist.fault # "level is full"

\* The promotion numbers of level L put C after B after A.
AgeOrdered(L) ==
    /\ (levels[L].b /\ levels[L].a) => hist.born[L].B > hist.born[L].A
    /\ (levels[L].c /\ levels[L].b) => hist.born[L].C > hist.born[L].B
    /\ (levels[L].c /\ levels[L].a) => hist.born[L].C > hist.born[L].A

\* C5: in every level, the file in C was promoted after the file in B, and
\* the file in B after the file in A.
C5_SlotsOrderedByAge == Quiet => \A L \in OpenRange : AgeOrdered(L)

\* C6: after every completed mutation, in each level B occupied implies A
\* occupied and C occupied implies A and B occupied.
C6_SlotsFilledInOrder ==
    (Quiet /\ hist.last = "ok") =>
        \A L \in OpenRange :
            /\ levels[L].b => levels[L].a
            /\ levels[L].c => (levels[L].a /\ levels[L].b)

\* One entry per key of A or B in ascending order: B's when B has the key,
\* A's otherwise.
RECURSIVE MergedInputs(_, _)
MergedInputs(a, b) ==
    IF a = <<>> THEN b
    ELSE IF b = <<>> THEN a
    ELSE IF Head(a).key < Head(b).key THEN <<Head(a)>> \o MergedInputs(Tail(a), b)
    ELSE IF Head(a).key = Head(b).key THEN <<Head(b)>> \o MergedInputs(Tail(a), Tail(b))
    ELSE <<Head(b)>> \o MergedInputs(a, Tail(b))

\* C7: driving incremental_merge to Complete, however the work is split,
\* leaves an X file whose in-order entries are one entry per key of A or B,
\* ascending, B's entry where B has the key, tombstones included.
C7_MergeKeepsNewestOfEveryKey ==
    mstate.outcome = "Complete" =>
        entries_owned(mstate.x) = MergedInputs(minput.a, minput.b)

\* The commands the dispatch of the head of the queue hands back.
HandedBack(r) == r.commands \o r.after

\* What a dispatched command may enqueue: nothing for a PromoteFile or for a
\* Merge above max_level, else at most one Merge, for the next level.
EnqueuesOnlyNextMerge(command, enq) ==
    /\ command.cmd = "PromoteFile" => enq = <<>>
    /\ (command.cmd = "Merge" /\ command.target_level > cfg.max_level) => enq = <<>>
    /\ Cardinality({i \in 1..Len(enq) : enq[i].cmd = "Merge"}) <= 1
    /\ \A i \in 1..Len(enq) :
          enq[i].cmd = "Merge" => enq[i].target_level = command.target_level + 1

\* What the dispatch of the head of the queue hands back.
C8_DispatchShape ==
    (pc = "dispatch" /\ queue # <<>>) =>
        EnqueuesOnlyNextMerge(Head(queue),
            HandedBack(handle_command(disk, levels, Head(queue), cfg)))

\* A call dispatches at most one PromoteFile and one Merge per level from
\* min_level to max_level + 1, and a completion in progress has a
\* filesystem operation left to run.
C8_Bounded ==
    /\ hist.dispatched <= 2 * (cfg.max_level - cfg.min_level + 2)
    /\ Len(queue) <= 2
    /\ pc = "complete" => cur.plan # <<>>

\* A call that returned Ok left nothing in the queue and ran every command
\* it scheduled.
C8_Drained ==
    (pc = "idle" /\ hist.last = "ok") =>
        (queue = <<>> /\ cur.plan = <<>> /\ hist.dispatched = hist.enqueued)

\* C8: every call terminates after finitely many dispatches: a dispatched
\* Merge for level L enqueues at most one Merge, for L + 1, a Merge above
\* max_level and a PromoteFile enqueue nothing, so a call dispatches a
\* bounded number of commands; and when the call returns Ok the queue is
\* empty and every command it scheduled was executed.
C8_CallsTerminate == C8_DispatchShape /\ C8_Bounded /\ C8_Drained

\* A call returned Ok after a Merge travelled from level to level.
C8_Witness ==
    /\ pc = "idle"
    /\ hist.last = "ok"
    /\ hist.dispatched >= 3
    /\ hist.dispatched = hist.enqueued
    /\ cfg.max_level > cfg.min_level

\* The process stopped inside a flushing mutation, after nursery.data was
\* written or after the log was truncated, before the PromoteFile ran, and
\* the directory was opened again, successfully.
ReopenedAfterFlushCrash ==
    /\ hist.closed_by = "crash"
    /\ hist.crash_op \in {"data written", "log truncated"}
    /\ hist.all_ok
    /\ hist.opened = "ok"
    /\ hist.post = 0
    /\ pc = "idle"

\* C9: after a process stop inside a flushing mutation, reopening yields a
\* database in which every acknowledged mutation is visible to get.
C9_FlushCrashKeepsAcknowledged ==
    ReopenedAfterFlushCrash =>
        \A k \in Keys \ {hist.crash_key} :
            get(nursery, levels, disk, cfg, k) = Expected(k)

\* The process stopped between two filesystem operations of a merge
\* completion and the directory was opened again, successfully.
ReopenedAfterCompletionCrash ==
    /\ hist.closed_by = "crash"
    /\ hist.crash_op = "in completion"
    /\ hist.opened = "ok"
    /\ hist.post = 0
    /\ pc = "idle"

\* C10: after a process stop between two filesystem operations of a merge
\* completion, every key that was readable before the completion started is
\* readable with the same result after reopening.
C10_CompletionCrashKeepsKeys ==
    ReopenedAfterCompletionCrash =>
        \A k \in Keys :
            (hist.before[k].ok /\ hist.before[k].entry # NoEntry) =>
                get(nursery, levels, disk, cfg, k) = hist.before[k]

\* Open was called on a directory in which some level held both A and B.
OpenedWithAAndB ==
    /\ hist.opened # "none"
    /\ hist.post = 0
    /\ hist.ab_at_open # {}
    /\ pc \in {"idle", "closed"}

\* C11: opening a directory in which level L holds both A-L.data and
\* B-L.data succeeds and leaves level L with a merger over A and B, also
\* when the X-L.data of the unfinished earlier merge is still there.
C11_OpenResumesMerge ==
    OpenedWithAAndB =>
        /\ hist.opened = "ok"
        /\ \A L \in hist.ab_at_open : levels[L].has_merger

\* The entries are strictly ascending by key.
StrictlyAscending(es) == \A i \in 1..(Len(es) - 1) : es[i].key < es[i + 1].key

\* A Writer was closed after add calls that all returned Ok, with entries
\* strictly ascending by key.
WrittenAscending ==
    /\ pc = "written"
    /\ whist.last = "closed"
    /\ StrictlyAscending(whist.added)

\* C12: for every strictly ascending sequence of KeyVal and Deleted entries,
\* of any length, adding them to a fresh Writer and closing it yields a file
\* whose in-order entries are the input sequence.
C12_WriterRoundTrip ==
    WrittenAscending => entries_owned(wfile) = whist.added

\* The entry of the sequence with the key (NoEntry when there is none).
EntryOf(es, k) ==
    IF \E i \in 1..Len(es) : es[i].key = k
    THEN es[CHOOSE i \in 1..Len(es) : es[i].key = k]
    ELSE NoEntry

\* C13: for every file built by the Writer from a strictly ascending
\* sequence, get_entry(k) returns the input entry of key k, KeyVal or
\* tombstone, and None when there is none, whatever the depth of the tree.
C13_GetEntryFindsInput ==
    WrittenAscending =>
        \A k \in WriterKeySet :
            TreeGetEntry(wfile, k) = [ok |-> TRUE, entry |-> EntryOf(whist.added, k)]

\* C14: add(entry) fails with OutOfOrderWrite whenever the key of the entry
\* is less than or equal to the key of the previous entry of the current
\* leaf block.
C14_RejectsKeyNotAbovePrevious ==
    (whist.offered # NoEntry /\ whist.leaf_last # NoEntry
        /\ whist.offered.key <= whist.leaf_last.key)
    => whist.last = "OutOfOrderWrite"

\* C15: in every file written through add calls that all returned Ok, the
\* entries of every block are strictly ascending by key.
C15_BlocksStrictlyAscending ==
    (pc = "written" /\ whist.last = "closed") =>
        \A i \in 1..Len(wfile.blocks) : StrictlyAscending(wfile.blocks[i].members)

\* A fresh database took 2^(min_level + 1) inserts of distinct keys and
\* nothing else, and the last insert has returned Ok.
BulkInserted ==
    /\ Quiet
    /\ hist.last = "ok"
    /\ hist.deletes = 0
    /\ hist.ops = level_size(cfg.min_level + 1)
    /\ Cardinality({k \in Keys : hist.acked[k].tag = "KeyVal"}) = hist.ops

\* C20: after 2^(min_level + 1) distinct keys were inserted into a fresh
\* database and the last insert returned, the directory holds no X-*.data
\* and no M-*.data file.
C20_NoMergeFilesAfterBulk ==
    BulkInserted =>
        \A L \in Levels : ~Exists(disk.lv[L].X) /\ ~Exists(disk.lv[L].M)

\* The records of the log up to the first one that cannot be read.
RECURSIVE ReadablePrefix(_)
ReadablePrefix(records) ==
    IF records = <<>> \/ ~Readable(Head(records)) THEN <<>>
    ELSE <<Head(records)>> \o ReadablePrefix(Tail(records))

\* The last record of key k among the records (there is one).
LastRecordOf(records, k) ==
    records[CHOOSE i \in 1..Len(records) :
                /\ records[i].key = k
                /\ \A j \in (i + 1)..Len(records) : records[j].key # k]

\* One entry per key of the records, ascending: the key's last record.
RECURSIVE LastPerKeyFrom(_, _)
LastPerKeyFrom(records, k) ==
    IF k > NumKeys THEN <<>>
    ELSE (IF \E i \in 1..Len(records) : records[i].key = k
          THEN <<LastRecordOf(records, k)>> ELSE <<>>)
         \o LastPerKeyFrom(records, k + 1)

\* The KeyVal and Deleted entries the leaf blocks of a file hold, in file
\* order.
RECURSIVE LeafEntriesFrom(_, _)
LeafEntriesFrom(file, i) ==
    IF i > Len(file.blocks) THEN <<>>
    ELSE (IF file.blocks[i].level = 0 THEN file.blocks[i].members ELSE <<>>)
         \o LeafEntriesFrom(file, i + 1)

\* Nursery::new has just returned Ok on a directory whose nursery.log held
\* readable records.
ReplayedLog ==
    /\ pc = "nursery"
    /\ nhist.last = "new"
    /\ nhist.had_log
    /\ ReadablePrefix(nhist.replayed) # <<>>

\* C16: replaying a nursery.log with several records for a key yields a
\* nursery.data with exactly one entry per key, the last record of the key
\* in log order (tombstone or value), from the records before the first
\* unreadable one.
C16_ReplayKeepsLastPerKey ==
    ReplayedLog =>
        /\ IsTree(disk.ndata)
        /\ LeafEntriesFrom(disk.ndata, 1)
               = LastPerKeyFrom(ReadablePrefix(nhist.replayed), 1)

\* A log with a value and then a tombstone for one key, and a torn tail, was
\* replayed.
C16_Witness ==
    /\ ReplayedLog
    /\ Len(nhist.replayed) > Len(ReadablePrefix(nhist.replayed))
    /\ \E i, j \in 1..Len(ReadablePrefix(nhist.replayed)) :
          /\ i < j
          /\ nhist.replayed[i].key = nhist.replayed[j].key
          /\ nhist.replayed[i].tag = "KeyVal"
          /\ nhist.replayed[j].tag = "Deleted"
    /\ IsTree(disk.ndata)

\* C17: Nursery::new returns PromoteFile{nursery.data, min_level} exactly
\* when an existing nursery.log yielded at least one entry; either way the
\* nursery it returns has an empty map and nursery.log exists with length 0.
C17_RecoveryCommandIffLogHadEntries ==
    (pc = "nursery" /\ nhist.last = "new") =>
        /\ nhist.recovery =
              (IF nhist.had_log /\ ReadablePrefix(nhist.replayed) # <<>>
               THEN <<PromoteFile("nursery.data", 0, cfg.min_level)>>
               ELSE <<>>)
        /\ nursery.data = EmptyData
        /\ disk.log.exists
        /\ disk.log.entries = <<>>

\* Nursery::new returned the recovery command for a log with records.
C17_Witness ==
    /\ ReplayedLog
    /\ nhist.recovery = <<PromoteFile("nursery.data", 0, cfg.min_level)>>
    /\ disk.log = EmptyLog

\* The last call returned Ok, as every call since Nursery::new.
NurseryCallOk == pc = "nursery" /\ nhist.last = "ok" /\ nhist.all_ok

\* The commands of the kind among the commands.
CommandsOf(commands, kind) == SelectSeq(commands, LAMBDA c : c.cmd = kind)

\* C18: an add or delete returns PromoteFile{nursery.data, min_level}
\* exactly when the map holds 2^min_level distinct keys after the call's
\* insertion; when such a call returns, the map is empty, nursery.log has
\* length 0 and nursery.data holds the drained entries, ascending by key.
C18_PromoteExactlyWhenFull ==
    NurseryCallOk =>
        /\ CommandsOf(nhist.commands, "PromoteFile") =
              (IF nhist.len_after = level_size(cfg.min_level)
               THEN <<PromoteFile("nursery.data", 0, cfg.min_level)>>
               ELSE <<>>)
        /\ CommandsOf(nhist.commands, "PromoteFile") # <<>> =>
              /\ nursery.data = EmptyData
              /\ disk.log.exists /\ disk.log.entries = <<>>
              /\ Len(nhist.drained) = level_size(cfg.min_level)
              /\ StrictlyAscending(nhist.drained)
              /\ LeafEntriesFrom(disk.ndata, 1) = nhist.drained

\* A call flushed a map of two keys.
C18_Witness ==
    /\ NurseryCallOk
    /\ cfg.min_level = 1
    /\ nhist.len_after = 2
    /\ CommandsOf(nhist.commands, "PromoteFile") # <<>>
    /\ IsTree(disk.ndata)

\* C19: for min_level >= 1, from a fresh nursery, a Merge is returned by
\* every (2^min_level / 2)-th call and by no other call, with steps =
\* 2^min_level / 2 and target_level = min_level; in a call that also
\* flushes, the PromoteFile comes before the Merge.
C19_MergeEveryHalfLevelCalls ==
    (NurseryCallOk /\ cfg.min_level >= 1) =>
        /\ CommandsOf(nhist.commands, "Merge") =
              (IF nhist.calls % (level_size(cfg.min_level) \div 2) = 0
               THEN <<Merge(level_size(cfg.min_level) \div 2, cfg.min_level)>>
               ELSE <<>>)
        /\ (CommandsOf(nhist.commands, "PromoteFile") # <<>>
             /\ CommandsOf(nhist.commands, "Merge") # <<>>) =>
               nhist.commands =
                   <<PromoteFile("nursery.data", 0, cfg.min_level),
                     Merge(level_size(cfg.min_level) \div 2, cfg.min_level)>>

\* The fourth call of a nursery with min_level 2 returned the second Merge.
C19_Witness ==
    /\ NurseryCallOk
    /\ cfg.min_level = 2
    /\ nhist.calls = 4
    /\ nhist.commands = <<Merge(2, 2)>>

\* A call with min_level 1 returned the PromoteFile and then the Merge.
C19_FlushThenMerge ==
    /\ NurseryCallOk
    /\ cfg.min_level = 1
    /\ nhist.commands = <<PromoteFile("nursery.data", 0, 1), Merge(1, 1)>>

\* A Writer was closed after the entries it accepted filled exactly one leaf
\* block: the block reached BLOCK_SIZE with the last of them, and not before.
ClosedAfterOneFullLeaf ==
    /\ pc = "written"
    /\ whist.last = "closed"
    /\ whist.added # <<>>
    /\ SumSizes(whist.added) >= BLOCK_SIZE
    /\ SumSizes(SubSeq(whist.added, 1, Len(whist.added) - 1)) < BLOCK_SIZE

\* C21: a Writer closed after its entries filled exactly one leaf block
\* writes no internal block; the root of the file is that leaf block, level
\* 0, at offset 4.
C21_OneFullLeafIsRoot ==
    ClosedAfterOneFullLeaf =>
        /\ wfile.root_pos = FIRST_BLOCK_POS
        /\ root_block(wfile).level = 0
        /\ root_block(wfile).members = whist.added
        /\ \A i \in 1..Len(wfile.blocks) : wfile.blocks[i].level = 0

\* The leaf block that became the root holds the entry that filled it.
C21_Witness ==
    /\ ClosedAfterOneFullLeaf
    /\ Len(whist.added) = 2
    /\ Len(wfile.blocks) = 1
    /\ wfile.root_pos = FIRST_BLOCK_POS

\* C22: a Writer closed without any add leaves a file that opens as a Tree,
\* with root position 4, a root block of blocklen 0 and level 0, and an
\* entry iteration that yields nothing.
C22_EmptyWriterGivesEmptyTree ==
    (pc = "written" /\ whist.calls = 0) =>
        /\ IsTree(wfile)
        /\ wfile.root_pos = 4
        /\ root_block(wfile).start = 4
        /\ root_block(wfile).blocklen = 0
        /\ root_block(wfile).level = 0
        /\ entries(root_block(wfile)) = <<>>
        /\ entries_owned(wfile) = <<>>

\* The Writer was closed before any add.
C22_Witness ==
    /\ pc = "written"
    /\ whist.calls = 0
    /\ whist.last = "closed"
    /\ wfile.bloom = {}

\* The number of entries of the kind among the entries.
CountOf(es, kind) == Cardinality({i \in 1..Len(es) : es[i].tag = kind})

\* C23: count() is the number of KeyVal entries added plus the number of
\* Deleted entries added by the add calls that returned Ok; the PosLen
\* entries of flushed blocks and a rejected add change neither counter.
C23_CountIsAddedEntries ==
    pc \in {"writing", "rejected", "written"} =>
        /\ writer.value_count = CountOf(whist.added, "KeyVal")
        /\ writer.tombstone_count = CountOf(whist.added, "Deleted")
        /\ count(writer) = Len(whist.added)

\* C28: for every block the Writer flushed, the PosLen recorded for it
\* passes the reader's length check, so Block::from_start_length on it
\* succeeds.
C28_PosLenPassesLengthCheck ==
    pc = "written" =>
        \A i \in 1..Len(wfile.blocks) :
            \A j \in 1..Len(wfile.blocks[i].members) :
                wfile.blocks[i].members[j].tag = "PosLen" =>
                    block_from_poslen_entry(wfile, wfile.blocks[i].members[j]).ok

\* The command at the head of the queue is a Merge for a level of the
\* database that holds an in-progress merger, and the budget Level::merge
\* computes for it is 0.
ZeroBudgetOnMerger ==
    /\ pc = "dispatch"
    /\ queue # <<>>
    /\ Head(queue).cmd = "Merge"
    /\ ValidLevel(Head(queue).target_level, cfg)
    /\ levels[Head(queue).target_level].has_merger
    /\ MergeSteps(Head(queue).target_level, Head(queue).steps,
                  level_size(cfg.min_level) \div 2,
                  cfg.min_level, cfg.max_level) = 0

\* C25: a Merge dispatched to a level that holds an in-progress merger, with
\* a computed budget of 0 steps, returns no commands and leaves the level as
\* it was: the same merger, with its progress and its X file, stays
\* installed.
C25_ZeroBudgetKeepsMerger ==
    [][(ZeroBudgetOnMerger /\ hist'.dispatched = hist.dispatched + 1) =>
          /\ queue' = Tail(queue)
          /\ levels'[Head(queue).target_level] = levels[Head(queue).target_level]
          /\ disk' = disk]_vars

\* Level L holds both A and B: its merge has not completed.
MergePending(L) == Exists(disk.lv[L].A) /\ Exists(disk.lv[L].B)

\* C26: a level that holds both A and B has its merge completed after
\* finitely many further mutations, in every configuration.  As a property
\* of finite runs: the handle never dies in a panic, after which no further
\* mutation runs, while a level still holds A and B.
C26_MergeCompletesWhileHandleLives ==
    (pc = "closed" /\ hist.closed_by = "panic") =>
        \A L \in OpenRange : ~MergePending(L)

\* The outcome o of incremental_merge with the budget steps, for the Merge
\* command at the head of the queue, against the result r of its dispatch:
\* when o is Complete with more entries than level L holds, the files to
\* remove are A and B, and the commands handed back are the PromoteFile of X
\* to L + 1 followed by the Merge for L + 1 with the budget left.
OverflowCompletion(command, L, steps, o, r) ==
    (o.outcome = "Complete" /\ o.count > level_size(L)) =>
        /\ o.steps <= steps
        /\ r.result = "ok"
        /\ r.commands = <<>>
        /\ r.plan = <<"remove A", "remove B">>
        /\ r.after = <<PromoteFile("X", L, L + 1),
                       Merge(command.steps + steps - o.steps, L + 1)>>

\* The Merge command runs a merger c.lv.merger of level L with a budget.
OverflowAt(command, L, c, steps) ==
    (c.err = "none" /\ c.lv.has_merger /\ steps > 0) =>
        OverflowCompletion(command, L, steps,
                           incremental_merge(c.lv.merger, steps),
                           handle_command(disk, levels, command, cfg))

\* The PromoteFile of a merged file X-L.data is the next command to run.
OverflowPromotionNext ==
    /\ pc = "dispatch"
    /\ queue # <<>>
    /\ Head(queue).cmd = "PromoteFile"
    /\ Head(queue).path = "X"

\* C29: when a merge at level L completes with count > 2^L, A-L.data and
\* B-L.data are deleted and the commands returned are exactly
\* PromoteFile{X-L.data, L+1} then Merge{work_completed + steps - completed,
\* L+1}, so the file is placed in L+1 before merge work runs there, and
\* completed <= steps.
C29_OverflowPromotesThenMerges ==
    /\ (pc = "dispatch" /\ queue # <<>> /\ Head(queue).cmd = "Merge"
           /\ ValidLevel(Head(queue).target_level, cfg)) =>
          OverflowAt(Head(queue), Head(queue).target_level,
                     maybe_create_merger(levels[Head(queue).target_level],
                                         disk.lv[Head(queue).target_level]),
                     MergeSteps(Head(queue).target_level, Head(queue).steps,
                                level_size(cfg.min_level) \div 2,
                                cfg.min_level, cfg.max_level))
    /\ OverflowPromotionNext =>
          /\ ~Exists(disk.lv[Head(queue).from].A)
          /\ ~Exists(disk.lv[Head(queue).from].B)
          /\ IsTree(disk.lv[Head(queue).from].X)
          /\ Head(queue).target_level = Head(queue).from + 1
          /\ Len(queue) = 2
          /\ queue[2].cmd = "Merge"
          /\ queue[2].target_level = Head(queue).from + 1

\* A merge completed with more entries than its level holds, and the
\* PromoteFile of its output is about to run.
C29_Witness ==
    /\ OverflowPromotionNext
    /\ Len(entries_owned(disk.lv[Head(queue).from].X)) > level_size(Head(queue).from)
    /\ ~Exists(disk.lv[Head(queue).from].A)
    /\ hist.last # "panic"

\* C27: every PromoteFile command dispatched targets a level in
\* [min_level, max_level]; a merge that completes at max_level never yields
\* an output to promote to max_level + 1, and the "invalid level number"
\* assertion of level_mut never fires.
C27_PromoteFileTargetsValidLevel ==
    /\ (pc = "dispatch" /\ queue # <<>> /\ Head(queue).cmd = "PromoteFile") =>
          ValidLevel(Head(queue).target_level, cfg)
    /\ hist.fault # "invalid level number"

\* The number of entries the merge that just completed wrote to its output.
CompletedCount == Len(LeafEntriesFrom(hist.completion.x, 1))

\* The merge completion of the current call has finished, and its output
\* fits in its level.
FitCompleted ==
    /\ hist.completion.done
    /\ pc \in {"dispatch", "idle"}
    /\ 0 < CompletedCount
    /\ CompletedCount <= level_size(hist.completion.level)

\* The state of level L after a completion that moved the file x to A and
\* the file c, if there was one, to B.
FitPlaced(L, x, c) ==
    /\ disk.lv[L].A = x
    /\ levels[L].a
    /\ disk.lv[L].B = c
    /\ levels[L].b = Exists(c)
    /\ ~Exists(disk.lv[L].C)
    /\ ~levels[L].c
    /\ ~levels[L].has_merger
    /\ ~Exists(disk.lv[L].X)
    /\ ~Exists(disk.lv[L].M)

\* C30: after a merge at level L completed with 0 < count <= 2^L, slot A
\* holds the merged output, slot B the former C file if there was one and
\* nothing otherwise, slot C is empty, the level has no merger, X-L.data and
\* M-L.data do not exist, and no PromoteFile command was emitted.
C30_FitCompletionState ==
    FitCompleted =>
        /\ FitPlaced(hist.completion.level, hist.completion.x, hist.completion.c)
        /\ \A i \in 1..Len(hist.completion.after) :
               hist.completion.after[i].cmd # "PromoteFile"
        /\ \A i \in 1..Len(queue) : queue[i].cmd # "PromoteFile"

\* A completion that fits moved the merged file to A and the C file to B.
C30_Witness ==
    /\ FitCompleted
    /\ Exists(hist.completion.c)
    /\ disk.lv[hist.completion.level].B = hist.completion.c
    /\ disk.lv[hist.completion.level].A = hist.completion.x

\* C24: for every Entry (KeyVal or Deleted, with or without timestamp, and
\* PosLen), reading the bytes produced by encode returns an equal entry, the
\* encoded length is encoded_size(), and the stored length field is
\* encoded_size() - 9.
C24_EntryRoundTrip ==
    /\ ent.step \in {"encoded", "read"} =>
          /\ Len(ent.bytes) = EncodedSize(ent.entry)
          /\ from_be_bytes(SubSeq(ent.bytes, 1, 4)) = EncodedSize(ent.entry) - 9
    /\ ent.step = "read" =>
          /\ ent.decoded.err = "none"
          /\ ent.decoded.entry = ent.entry

\* A KeyVal with a timestamp, a key and a value was encoded and read back.
C24_Witness ==
    /\ ent.step = "read"
    /\ ent.entry.tag = "KeyVal"
    /\ ent.entry.timestamp # <<>>
    /\ Len(ent.entry.key) = 2
    /\ ent.entry.value # <<>>
    /\ ent.decoded.entry = ent.entry

\* The merge completion of the current call has finished, and its output
\* holds no entry.
EmptyCompleted ==
    /\ hist.completion.done
    /\ pc \in {"dispatch", "idle"}
    /\ IsTree(hist.completion.x)
    /\ CompletedCount = 0

\* C31: after a merge at level L completed with count == 0, A-L.data,
\* B-L.data and the empty X-L.data are all removed from disk and, if C
\* existed, it is the level's A.
C31_EmptyCompletionRemovesFiles ==
    EmptyCompleted =>
        /\ ~Exists(disk.lv[hist.completion.level].X)
        /\ ~Exists(disk.lv[hist.completion.level].B)
        /\ ~Exists(disk.lv[hist.completion.level].C)
        /\ disk.lv[hist.completion.level].A = hist.completion.c
        /\ levels[hist.completion.level].a = Exists(hist.completion.c)

\* The budget the claim C32 states for a Merge command to level L:
\* min(2 * 2^L, max(0, depth * work_unit - work_completed)).
StatedSteps(command, L) ==
    LET depth == cfg.max_level - cfg.min_level + 1
        left == depth * (2 ^ cfg.min_level \div 2) - command.steps
    IN  Min(2 * 2 ^ L, IF left > 0 THEN left ELSE 0)

\* The outcome o of incremental_merge with the stated budget on the merger
\* of c, against the result r of the dispatch: when o is Continue, the
\* merger o returns is installed, the files A, B, C and M are as they were
\* and X is the file its writer has written so far, and the one command
\* handed back is Merge{work_completed + steps, L + 1}.
ContinueKeepsMerger(command, L, c, steps, o, r) ==
    o.outcome = "Continue" =>
        /\ r.result = "ok"
        /\ r.plan = <<>>
        /\ r.after = <<>>
        /\ r.commands = <<Merge(command.steps + steps, L + 1)>>
        /\ r.levels[L].has_merger
        /\ r.levels[L].merger = o.merger
        /\ r.levels[L].a /\ r.levels[L].b /\ r.levels[L].c = levels[L].c
        /\ \A slot \in {"A", "B", "C", "M"} : r.disk.lv[L][slot] = disk.lv[L][slot]
        /\ r.disk.lv[L].X = FileOf(o.merger.x)
        /\ \A K \in Levels \ {L} : r.disk.lv[K] = disk.lv[K] /\ r.levels[K] = levels[K]

\* The Merge command runs the merger of c with the stated budget.
ContinueAt(command, L, c, steps) ==
    (c.err = "none" /\ c.lv.has_merger /\ steps > 0) =>
        ContinueKeepsMerger(command, L, c, steps,
                            incremental_merge(c.lv.merger, steps),
                            handle_command(disk, levels, command, cfg))

\* C32: when incremental_merge returns Continue, Level::merge keeps the
\* returned merger installed in the level, deletes or renames no file, and
\* returns exactly one command, Merge{work_completed + steps, L+1}, with
\* steps = min(2 * 2^L, max(0, depth * work_unit - work_completed)).
C32_ContinueKeepsMergerAndForwards ==
    (pc = "dispatch" /\ queue # <<>> /\ Head(queue).cmd = "Merge"
       /\ ValidLevel(Head(queue).target_level, cfg)) =>
        ContinueAt(Head(queue), Head(queue).target_level,
                   maybe_create_merger(levels[Head(queue).target_level],
                                       disk.lv[Head(queue).target_level]),
                   StatedSteps(Head(queue), Head(queue).target_level))

\* A Merge left its merger installed with entries still to merge, and the
\* Merge it handed back for the next level is the next command to run.
C32_Witness ==
    /\ pc = "dispatch"
    /\ queue # <<>>
    /\ Head(queue).cmd = "Merge"
    /\ Head(queue).target_level > cfg.min_level
    /\ levels[Head(queue).target_level - 1].has_merger
    /\ levels[Head(queue).target_level - 1].merger.x.written = <<>>
    /\ count(levels[Head(queue).target_level - 1].merger.x) > 0
    /\ Exists(disk.lv[Head(queue).target_level - 1].A)
    /\ Exists(disk.lv[Head(queue).target_level - 1].B)

\* C33: in any single insert or delete call, the merger iterations executed
\* across all levels are at most depth * work_unit, with depth = max_level -
\* min_level + 1 and work_unit = 2^min_level / 2.
C33_IterationsWithinBudget ==
    hist.iterations <=
        (cfg.max_level - cfg.min_level + 1) * (level_size(cfg.min_level) \div 2)

\* The KeyVal and Deleted entries a writer has taken so far: those of the
\* leaf blocks it has flushed, then those of its pending leaf block.
RECURSIVE PendingLeafEntries(_, _)
PendingLeafEntries(blocks, i) ==
    IF i > Len(blocks) THEN <<>>
    ELSE (IF blocks[i].level = 0 THEN blocks[i].members ELSE <<>>)
         \o PendingLeafEntries(blocks, i + 1)

WriterEntries(w) == LeafEntriesFrom(FileOf(w), 1) \o PendingLeafEntries(w.blocks, 1)

\* The entries the last incremental_merge call wrote to X.
EmittedInCall == Len(WriterEntries(mstate'.merger.x)) - Len(WriterEntries(mstate.merger.x))

\* C34: incremental_merge(work) returns Complete only in a call in which an
\* iteration finds both inputs exhausted; the steps it reports are the
\* iterations of that call, the entries emitted in the call plus one, with
\* 1 <= steps <= work, and the count it reports is the number of entries
\* written to X over all calls on the merger.
C34_CompleteReportsIterationsAndCount ==
    [][mstate'.outcome = "Complete" =>
          /\ mstate'.merger.a = <<>>
          /\ mstate'.merger.b = <<>>
          /\ mstate'.steps = EmittedInCall + 1
          /\ 1 <= mstate'.steps
          /\ mstate'.steps <= mstate'.work
          /\ mstate'.count = Len(WriterEntries(mstate'.merger.x))
          /\ mstate'.count = Len(LeafEntriesFrom(mstate'.x, 1))]_vars

\* A merge completed in its third call or later, in a call that also
\* emitted entries.
C34_Witness ==
    /\ mstate.outcome = "Complete"
    /\ mstate.calls >= 3
    /\ mstate.steps >= 2
    /\ mstate.count > mstate.steps

\* The entries a merge of the two inputs has to emit.
ToEmit ==
    Len(MergedInputs(entries_owned(Written(minput.a)), entries_owned(Written(minput.b))))

\* C35: incremental_merge(work) runs at most work iterations and writes at
\* most work entries to X; it returns Continue whenever none of the granted
\* iterations finds both inputs exhausted, also in the call that emits the
\* last entries, so a merge with n entries to emit completes after n + 1
\* iterations in total.
C35_ContinueUntilExhaustionObserved ==
    [][/\ EmittedInCall <= mstate'.work
       /\ mstate'.iterations - mstate.iterations <= mstate'.work
       /\ mstate'.outcome = "Continue" =>
             /\ EmittedInCall = mstate'.work
             /\ mstate'.iterations = Len(WriterEntries(mstate'.merger.x))
             /\ mstate'.iterations <= ToEmit
       /\ mstate'.outcome = "Complete" => mstate'.iterations = ToEmit + 1
       /\ mstate'.iterations <= ToEmit => mstate'.outcome = "Continue"]_vars

\* A call emitted the last entries of both inputs and returned Continue.
C35_Witness ==
    /\ mstate.outcome = "Continue"
    /\ mstate.merger.a = <<>>
    /\ mstate.merger.b = <<>>
    /\ mstate.iterations = ToEmit
    /\ ToEmit >= 2

\* C36: when appending to nursery.log or syncing it fails in add or delete,
\* the call returns the error and the in-memory map is as it was before the
\* call: get_value gives for every key what it gave before.
C36_FailedLogWriteLeavesMap ==
    [][(nhist'.total = nhist.total + 1 /\ nhist'.err = "Io") =>
          \A k \in KeySpace : get_value(nursery', k) = get_value(nursery, k)]_vars

\* The blocks the stand-alone Writer has appended to its file.
WrittenBlocks == {writer.written[i] : i \in 1..Len(writer.written)}

\* The position of the iterator after the last entry flushed into the block.
PosAfterLast(block) == block.start + 8 + SumSizes(block.members)

\* C39: iterating a block the Writer wrote, from start + 8 while the position
\* is below start + blocklen, yields exactly the entries flushed into the
\* block in the order written: none is missing, and after the last one the
\* position is at or past start + blocklen, so nothing is read from beyond
\* the block.
C39_BlockIterationYieldsFlushedEntries ==
    \A block \in WrittenBlocks :
        /\ entries(block) = block.members
        /\ PosAfterLast(block) >= block.start + block.blocklen
        /\ PosAfterLast(block) = block.start + 4 + block.blocklen

\* The Writer has flushed a leaf block of several entries and an inner block.
C39_Witness ==
    /\ \E block \in WrittenBlocks : block.level = 0 /\ Len(block.members) >= 2
    /\ \E block \in WrittenBlocks : block.level = 1 /\ Len(block.members) >= 2

\* The places, in the pending blocks and in the blocks already appended to
\* the file, of the PosLen entries one level up that carry the position and
\* the first key of the flushed block.
PointersIn(blocks, block) ==
    {p \in (1..Len(blocks)) \X (1..MaxAdds + 1) :
        /\ p[2] <= Len(blocks[p[1]].members)
        /\ blocks[p[1]].level = block.level + 1
        /\ blocks[p[1]].members[p[2]].tag = "PosLen"
        /\ blocks[p[1]].members[p[2]].blockpos = block.start
        /\ blocks[p[1]].members[p[2]].key = block.members[1].key}

PointersTo(block) ==
    Cardinality(PointersIn(writer.blocks, block))
        + Cardinality(PointersIn(writer.written, block))

\* C38: after every Writer::add has returned, every pending block holds less
\* than 8192 bytes of encoded entries (a block that reaches 8192 is flushed
\* in the add that brought it there), and every flushed block has exactly
\* one PosLen with its position and its first key in the block one level up.
C38_PendingBelowBlockSizeOnePosLenPerFlush ==
    pc \in {"writing", "rejected"} =>
        /\ \A j \in 1..Len(writer.blocks) :
              /\ writer.blocks[j].size = SumSizes(writer.blocks[j].members)
              /\ writer.blocks[j].size < BLOCK_SIZE
        /\ \A block \in WrittenBlocks : PointersTo(block) = 1

\* The number of KeyVal and Deleted entries the file holds in its leaf blocks.
EntriesIn(file) == Len(LeafEntriesFrom(file, 1))

\* C37: after every completed mutation, every file in slot A, B or C of a
\* level L of the configuration holds at least 1 and at most 2^L entries.
C37_LevelFilesWithinCapacity ==
    (pc = "idle" /\ hist.last = "ok") =>
        \A L \in cfg.min_level..cfg.max_level : \A slot \in {"A", "B", "C"} :
            Exists(disk.lv[L][slot]) =>
                /\ 1 <= EntriesIn(disk.lv[L][slot])
                /\ EntriesIn(disk.lv[L][slot]) <= level_size(L)

\* A completed mutation left, in a level above the lowest, a file that holds
\* as many entries as the level takes, and in the lowest level a file too.
C37_Witness ==
    /\ pc = "idle"
    /\ hist.last = "ok"
    /\ \E L \in cfg.min_level + 1..cfg.max_level :
          /\ Exists(disk.lv[L].A)
          /\ EntriesIn(disk.lv[L].A) = level_size(L)
    /\ Exists(disk.lv[cfg.min_level].A)

====
